---- MODULE Spec2Model ----
(***************************************************************************)
(* A model of the tutor server's request pipeline: envelope validation,    *)
(* tool-input validation, dispatch through the tool registry, tool         *)
(* execution and the tutor policy engine.                                  *)
(*                                                                         *)
(* JavaScript values are tagged records: [t |-> "undefined"],              *)
(* [t |-> "null"], [t |-> "string", v |-> s], [t |-> "number", n |-> k],     *)
(* [t |-> "array", items |-> <<...>>], [t |-> "object", ...].  An absent     *)
(* property of an object is a property whose value is Undefined.           *)
(***************************************************************************)
EXTENDS Integers, Sequences, FiniteSets, TLC

VARIABLES
    mainPc,       \* main(): index of the next statement of MainProgram
    errorHandler, \* main(): registerErrorHandler(app) has run
    routes,       \* main(): registerRoutes(app) has run (POST /mcp exists)
    listening,    \* main(): app.listen() has been called
    tools,        \* toolRegistry: the Map<string, MCPTool>
    regLog,       \* history: every registerTool(tool) call, in order
    lookup,       \* history: the last getTool(name) call and its result
    reqPc,        \* POST /mcp handler: position of the request in flight
    body,         \* POST /mcp handler: req.body
    envData,      \* POST /mcp handler: env.data, the validated envelope
    mcpReq,       \* handleMCPRequest: its argument req
    execArgs,     \* handleMCPRequest: the arguments of tool.execute
    raw,          \* handleMCPRequest: the settled result of tool.execute
    reply,        \* what the server sends back for the request
    trace,        \* history: the stages the request has run, in order
    polRaw,       \* applyTutorPolicy: argument raw
    polCtx,       \* applyTutorPolicy: argument ctx
    polOut,       \* applyTutorPolicy: the value returned
    polPc,        \* applyTutorPolicy: "ready", "returned" or "reapplied"
    callee,       \* a function of the tutor modules called on its own: its name
    callArgs,     \* that call's arguments
    callRet       \* that call's return value, Pending before it returns

vars == <<mainPc, errorHandler, routes, listening, tools, regLog, lookup,
          reqPc, body, envData, mcpReq, execArgs, raw, reply, trace,
          polRaw, polCtx, polOut, polPc, callee, callArgs, callRet>>

mainVars == <<mainPc, errorHandler, routes, listening>>
registryVars == <<tools, regLog, lookup>>
requestVars == <<reqPc, body, envData, mcpReq, execArgs, raw, reply, trace>>
policyVars == <<polRaw, polCtx, polOut, polPc>>
callVars == <<callee, callArgs, callRet>>

----------------------------------------------------------------------------
(* JavaScript values *)

Undefined == [t |-> "undefined"]
Null == [t |-> "null"]
Str(s) == [t |-> "string", v |-> s]
Num(k) == [t |-> "number", n |-> k]
Arr(xs) == [t |-> "array", items |-> xs]

IsNullish(x) == x.t \in {"undefined", "null"}
IsString(x) == x.t = "string"
IsArray(x) == x.t = "array"

\* a ?? b
Coalesce(a, b) == IF IsNullish(a) THEN b ELSE a

\* !!x for the values the model uses (a record without a tag is an object)
Truthy(x) ==
    IF "t" \notin DOMAIN x THEN TRUE
    ELSE CASE x.t \in {"undefined", "null"} -> FALSE
           [] x.t = "string" -> x.v # ""
           [] x.t = "number" -> x.n # 0
           [] OTHER -> TRUE

----------------------------------------------------------------------------
(* String.prototype operations, on TLA+ strings *)

StartsWith(s, p) == Len(p) <= Len(s) /\ SubSeq(s, 1, Len(p)) = p
EndsWith(s, p) == Len(p) <= Len(s) /\ SubSeq(s, Len(s) - Len(p) + 1, Len(s)) = p
Includes(s, p) ==
    \E i \in 1..(Len(s) - Len(p) + 1) : SubSeq(s, i, i + Len(p) - 1) = p

RECURSIVE TrimStart(_)
TrimStart(s) ==
    IF Len(s) > 0 /\ SubSeq(s, 1, 1) = " " THEN TrimStart(SubSeq(s, 2, Len(s))) ELSE s

RECURSIVE TrimEnd(_)
TrimEnd(s) ==
    IF Len(s) > 0 /\ SubSeq(s, Len(s), Len(s)) = " "
    THEN TrimEnd(SubSeq(s, 1, Len(s) - 1)) ELSE s

Trim(s) == TrimEnd(TrimStart(s))

UpperChars == "ABCDEFGHIJKLMNOPQRSTUVWXYZ"
LowerChars == "abcdefghijklmnopqrstuvwxyz"

LowerChar(c) ==
    IF \E i \in 1..Len(UpperChars) : SubSeq(UpperChars, i, i) = c
    THEN LET i == CHOOSE j \in 1..Len(UpperChars) : SubSeq(UpperChars, j, j) = c
         IN SubSeq(LowerChars, i, i)
    ELSE c

RECURSIVE ToLowerCase(_)
ToLowerCase(s) ==
    IF Len(s) = 0 THEN ""
    ELSE LowerChar(SubSeq(s, 1, 1)) \o ToLowerCase(SubSeq(s, 2, Len(s)))

\* Array.prototype.join
RECURSIVE Join(_, _)
Join(xs, sep) ==
    IF xs = <<>> THEN ""
    ELSE IF Len(xs) = 1 THEN xs[1]
    ELSE xs[1] \o sep \o Join(Tail(xs), sep)

\* obj[key] on an object literal: an own property, else a member inherited
\* from Object.prototype (a function or object that is truthy and is none of
\* the table's values), else undefined.
ObjectPrototypeKeys ==
    {"constructor", "__proto__", "toString", "valueOf", "hasOwnProperty"}
Inherited(key) == [t |-> "inherited", key |-> key]

----------------------------------------------------------------------------
(* zod: the schema combinators the repository uses, as data, and safeParse *)

ZString == [kind |-> "string"]
ZStringMin(min, message) == [kind |-> "string_min", min |-> min, message |-> message]
ZEnum(options) == [kind |-> "enum", options |-> options]
ZLiterals(options) == [kind |-> "literals", options |-> options]
ZArray(inner) == [kind |-> "array", of |-> inner]
ZOptional(inner) == [kind |-> "optional", of |-> inner]
ZUnknown == [kind |-> "unknown"]
ZObject(shape) == [kind |-> "object", shape |-> shape]
Field(key, schema) == [key |-> key, schema |-> schema]

IsSchema(x) == "kind" \in DOMAIN x

Issue(path, message) == [path |-> path, message |-> message]

\* obj.key, undefined when the property is absent
Get(obj, key) == IF key \in DOMAIN obj THEN obj[key] ELSE Undefined

ShapeKeys(shape) == {shape[i].key : i \in 1..Len(shape)}
SchemaOf(shape, key) ==
    shape[CHOOSE i \in 1..Len(shape) : shape[i].key = key].schema

RECURSIVE ZodIssues(_, _, _)
RECURSIVE ZodItemIssues(_, _, _, _)
RECURSIVE ZodShapeIssues(_, _, _, _)

\* The issues safeParse reports for value under schema, each with its path
ZodIssues(schema, value, path) ==
    CASE schema.kind = "unknown" -> <<>>
      [] schema.kind = "optional" ->
            IF value.t = "undefined" THEN <<>> ELSE ZodIssues(schema.of, value, path)
      [] schema.kind = "string" ->
            IF value.t = "undefined" THEN <<Issue(path, "Required")>>
            ELSE IF value.t # "string" THEN <<Issue(path, "Expected string")>>
            ELSE <<>>
      [] schema.kind = "string_min" ->
            IF value.t = "undefined" THEN <<Issue(path, "Required")>>
            ELSE IF value.t # "string" THEN <<Issue(path, "Expected string")>>
            ELSE IF Len(value.v) < schema.min THEN <<Issue(path, schema.message)>>
            ELSE <<>>
      [] schema.kind = "enum" ->
            IF value.t = "undefined" THEN <<Issue(path, "Required")>>
            ELSE IF value.t = "string" /\ value.v \in schema.options THEN <<>>
            ELSE <<Issue(path, "Invalid enum value")>>
      [] schema.kind = "literals" ->
            IF value.t = "number" /\ value.n \in schema.options THEN <<>>
            ELSE <<Issue(path, "Invalid input")>>
      [] schema.kind = "array" ->
            IF value.t = "undefined" THEN <<Issue(path, "Required")>>
            ELSE IF value.t # "array" THEN <<Issue(path, "Expected array")>>
            ELSE ZodItemIssues(schema.of, value.items, path, 1)
      [] schema.kind = "object" ->
            IF value.t = "undefined" THEN <<Issue(path, "Required")>>
            ELSE IF value.t # "object" THEN <<Issue(path, "Expected object")>>
            ELSE ZodShapeIssues(schema.shape, value, path, 1)

ZodItemIssues(inner, items, path, i) ==
    IF i > Len(items) THEN <<>>
    ELSE ZodIssues(inner, items[i], Append(path, ToString(i - 1)))
            \o ZodItemIssues(inner, items, path, i + 1)

ZodShapeIssues(shape, value, path, i) ==
    IF i > Len(shape) THEN <<>>
    ELSE ZodIssues(shape[i].schema, Get(value, shape[i].key), Append(path, shape[i].key))
            \o ZodShapeIssues(shape, value, path, i + 1)

RECURSIVE ZodData(_, _)
\* The data safeParse returns on success: z.object strips the keys its shape
\* does not name
ZodData(schema, value) ==
    CASE schema.kind = "optional" ->
            IF value.t = "undefined" THEN value ELSE ZodData(schema.of, value)
      [] schema.kind = "array" ->
            Arr([i \in 1..Len(value.items) |-> ZodData(schema.of, value.items[i])])
      [] schema.kind = "object" ->
            [k \in {"t"} \cup ShapeKeys(schema.shape) |->
                IF k = "t" THEN "object"
                ELSE ZodData(SchemaOf(schema.shape, k), Get(value, k))]
      [] OTHER -> value

Threw == [threw |-> TRUE]

\* formatIssues(error): the flat {path, message} list
formatIssues(issues) ==
    [i \in 1..Len(issues) |->
        [path |-> IF Len(issues[i].path) > 0 THEN Join(issues[i].path, ".") ELSE "(root)",
         message |-> issues[i].message]]

\* validate(schema, value): never throws for a zod schema; calling
\* schema.safeParse on something that is no schema is a TypeError
validate(schema, value) ==
    IF ~IsSchema(schema) THEN Threw
    ELSE LET issues == ZodIssues(schema, value, <<>>)
         IN IF issues = <<>>
            THEN [threw |-> FALSE, ok |-> TRUE, data |-> ZodData(schema, value)]
            ELSE [threw |-> FALSE, ok |-> FALSE, issues |-> formatIssues(issues)]

MinToolNameLen == 1
MinConceptLen == 1
MinTopicLen == 1
MinAnswerLen == 1

learnerLevelSchema == ZOptional(ZEnum({"beginner", "intermediate"}))

\* Variant for C9: toolName may be any string
mcpRequestSchemaAnyToolName ==
    ZObject(<<
        Field("toolName", ZString),
        Field("input", ZUnknown),
        Field("userContext", ZOptional(ZObject(<<
            Field("learnerLevel", learnerLevelSchema),
            Field("previousTopics", ZOptional(ZArray(ZString)))
        >>)))
    >>)

mcpRequestSchema ==
    ZObject(<<
        Field("toolName", ZStringMin(MinToolNameLen, "String must contain at least 1 character(s)")),
        Field("input", ZUnknown),
        Field("userContext", ZOptional(ZObject(<<
            Field("learnerLevel", learnerLevelSchema),
            Field("previousTopics", ZOptional(ZArray(ZString)))
        >>)))
    >>)

explainConceptInputSchema ==
    ZObject(<<
        Field("concept", ZStringMin(MinConceptLen, "concept is required")),
        Field("hintLevel", ZOptional(ZLiterals({1, 2})))
    >>)

TrackNames == {"foundation", "frontend", "backend", "fullstack"}

nextTopicInputSchema ==
    ZObject(<<
        Field("track", ZOptional(ZEnum(TrackNames))),
        Field("currentTopic", ZOptional(ZString))
    >>)

assessKnowledgeInputSchema ==
    ZObject(<<
        Field("topic", ZStringMin(MinTopicLen, "String must contain at least 1 character(s)"))
    >>)

analyzeAssessmentInputSchema ==
    ZObject(<<
        Field("topic", ZStringMin(MinTopicLen, "String must contain at least 1 character(s)")),
        Field("answers", ZArray(ZStringMin(MinAnswerLen, "String must contain at least 1 character(s)")))
    >>)

SchemaNames == {"explain_concept", "next_topic", "assess_knowledge", "analyze_assessment"}

\* toolInputSchemas[toolName], an object literal indexed by a request string
toolInputSchemas(toolName) ==
    CASE toolName = "explain_concept" -> explainConceptInputSchema
      [] toolName = "next_topic" -> nextTopicInputSchema
      [] toolName = "assess_knowledge" -> assessKnowledgeInputSchema
      [] toolName = "analyze_assessment" -> analyzeAssessmentInputSchema
      [] toolName \in ObjectPrototypeKeys -> Inherited(toolName)
      [] OTHER -> Undefined

----------------------------------------------------------------------------
(* Responses, and the objects tools put in output (ordered, as JSON.stringify
   walks them) *)

Entry(k, v) == [k |-> k, v |-> v]
Out(entries) == [t |-> "object", entries |-> entries]
Strs(xs) == Arr([i \in 1..Len(xs) |-> Str(xs[i])])

\* obj.key of an output object
Prop(obj, key) ==
    IF obj.t = "object" /\ "entries" \in DOMAIN obj
          /\ \E i \in 1..Len(obj.entries) : obj.entries[i].k = key
    THEN obj.entries[CHOOSE i \in 1..Len(obj.entries) : obj.entries[i].k = key].v
    ELSE Undefined

HintLadder(level, guidance) ==
    [t |-> "object", level |-> Num(level), guidance |-> Str(guidance)]

\* MCPResponse; an absent optional property is Undefined
Response(output, checkpoints, tutorNotes, hintLadder) ==
    [output |-> output, checkpoints |-> checkpoints, tutorNotes |-> tutorNotes,
     hintLadder |-> hintLadder]

\* `${x}` in a template literal
Interpolate(x) ==
    CASE x.t = "string" -> x.v
      [] x.t = "undefined" -> "undefined"
      [] x.t = "null" -> "null"
      [] x.t = "number" -> ToString(x.n)
      [] OTHER -> "[object Object]"

\* What an async function settles to
Resolved(value) == [threw |-> FALSE, value |-> value]

----------------------------------------------------------------------------
(* Text: a string with line structure is a sequence of runs, each a line
   repeated n times; stringifyOutput and the guardrail's measures *)

Run(line, n) == [line |-> line, n |-> n]
Text(runs) == [t |-> "string", lines |-> runs]

RECURSIVE SumSeq(_)
SumSeq(xs) == IF xs = <<>> THEN 0 ELSE Head(xs) + SumSeq(Tail(xs))

RECURSIVE JsonLines(_, _, _, _)
RECURSIVE JsonItems(_, _, _)
RECURSIVE JsonEntries(_, _, _)

\* JSON.stringify(value, null, 2), as lines; prefix is the `"key": ` before a
\* property's value, suffix the comma after it
JsonLines(value, indent, prefix, suffix) ==
    CASE value.t = "string" /\ "v" \in DOMAIN value ->
            <<indent \o prefix \o "\"" \o value.v \o "\"" \o suffix>>
      [] value.t = "number" -> <<indent \o prefix \o ToString(value.n) \o suffix>>
      [] value.t \in {"null", "undefined"} -> <<indent \o prefix \o "null" \o suffix>>
      [] value.t = "array" ->
            IF value.items = <<>> THEN <<indent \o prefix \o "[]" \o suffix>>
            ELSE <<indent \o prefix \o "[">>
                    \o JsonItems(value.items, indent \o "  ", 1)
                    \o <<indent \o "]" \o suffix>>
      [] value.t = "object" ->
            LET present == SelectSeq(value.entries, LAMBDA e : e.v.t # "undefined")
            IN IF present = <<>> THEN <<indent \o prefix \o "{}" \o suffix>>
               ELSE <<indent \o prefix \o "{">>
                       \o JsonEntries(present, indent \o "  ", 1)
                       \o <<indent \o "}" \o suffix>>

JsonItems(items, indent, i) ==
    IF i > Len(items) THEN <<>>
    ELSE JsonLines(items[i], indent, "", IF i < Len(items) THEN "," ELSE "")
            \o JsonItems(items, indent, i + 1)

JsonEntries(entries, indent, i) ==
    IF i > Len(entries) THEN <<>>
    ELSE JsonLines(entries[i].v, indent, "\"" \o entries[i].k \o "\": ",
                   IF i < Len(entries) THEN "," ELSE "")
            \o JsonEntries(entries, indent, i + 1)

\* stringifyOutput(output): the text, as runs
stringifyOutput(output) ==
    IF IsNullish(output) THEN <<Run("", 1)>>
    ELSE IF output.t = "string"
         THEN IF "lines" \in DOMAIN output
              THEN (IF output.lines = <<>> THEN <<Run("", 1)>> ELSE output.lines)
              ELSE <<Run(output.v, 1)>>
    ELSE LET lines == JsonLines(output, "", "", "")
         IN [i \in 1..Len(lines) |-> Run(lines[i], 1)]

MatchesAt(s, p, i) == i + Len(p) - 1 <= Len(s) /\ SubSeq(s, i, i + Len(p) - 1) = p

\* String.prototype.indexOf, 1-based; 0 when p does not occur
IndexOf(s, p) ==
    IF \E i \in 1..Len(s) : MatchesAt(s, p, i)
    THEN CHOOSE i \in 1..Len(s) :
            MatchesAt(s, p, i) /\ \A j \in 1..(i - 1) : ~MatchesAt(s, p, j)
    ELSE 0

RECURSIVE CountMatches(_, _)
\* (s.match(/p/g) ?? []).length: non-overlapping matches, left to right
CountMatches(s, p) ==
    LET i == IndexOf(s, p)
    IN IF i = 0 THEN 0
       ELSE 1 + CountMatches(SubSeq(s, i + Len(p), Len(s)), p)

\* The module's strings cannot hold a backquote: texts write ^ for it
Backquote == "^"
Fence == Backquote \o Backquote \o Backquote

\* (text.match(/<three backquotes>/g) ?? []).length
CodeBlockCount(text) ==
    SumSeq([i \in 1..Len(text) |-> CountMatches(text[i].line, Fence) * text[i].n])

\* text.split('\n').length
LineCount(text) == SumSeq([i \in 1..Len(text) |-> text[i].n])

\* The test countCodeLikeLines applies to one line
IsCodeLikeLine(line) ==
    LET l == Trim(line)
    IN /\ l # ""
       /\ \/ StartsWith(l, "import ")
          \/ StartsWith(l, "export ")
          \/ StartsWith(l, "const ")
          \/ StartsWith(l, "let ")
          \/ StartsWith(l, "function ")
          \/ Includes(l, "=>")
          \/ EndsWith(l, "{")
          \/ EndsWith(l, "};")
          \/ Includes(l, ";")

countCodeLikeLines(text) ==
    SumSeq([i \in 1..Len(text) |-> IF IsCodeLikeLine(text[i].line) THEN text[i].n ELSE 0])

----------------------------------------------------------------------------
(* tutorPolicy: ensureDefaults, applyAntiVibeGuardrails, applyTutorPolicy *)

DEFAULT_CHECKPOINTS ==
    Strs(<<"Before you continue: what is the input and output of what you're building?",
           "What is the smallest next step you can take to verify you're on the right track?",
           "What edge case could break your approach?">>)

DEFAULT_TUTOR_NOTES ==
    Str("Answer the checkpoints first. If you want more help, tell me what you tried and what happened.")

DEFAULT_HINT_LADDER ==
    HintLadder(1, "High-level guidance only. Ask for Hint 2/3 if you get stuck and share your attempt.")

\* res.tutorNotes?.trim(), as the condition of ?:
HasTutorNotes(res) ==
    /\ ~IsNullish(res.tutorNotes)
    /\ Trim(res.tutorNotes.v) # ""

\* Variant for C15: the default checkpoints added after the handler's own
ensureDefaultsAppends(res) ==
    LET given == IF IsArray(res.checkpoints) THEN res.checkpoints.items ELSE <<>>
        tutorNotes == IF HasTutorNotes(res) THEN res.tutorNotes ELSE DEFAULT_TUTOR_NOTES
    IN [res EXCEPT !.checkpoints = Arr(given \o DEFAULT_CHECKPOINTS.items),
                   !.tutorNotes = tutorNotes]

\* Variant for C1: defaults only a missing checkpoints property, so an empty
\* array is kept
ensureDefaultsKeepsEmpty(res) ==
    LET checkpoints ==
            IF IsArray(res.checkpoints) THEN res.checkpoints ELSE DEFAULT_CHECKPOINTS
        tutorNotes == IF HasTutorNotes(res) THEN res.tutorNotes ELSE DEFAULT_TUTOR_NOTES
    IN [res EXCEPT !.checkpoints = checkpoints, !.tutorNotes = tutorNotes]

ensureDefaults(res) ==
    LET checkpoints ==
            IF IsArray(res.checkpoints) /\ Len(res.checkpoints.items) > 0
            THEN res.checkpoints
            ELSE DEFAULT_CHECKPOINTS
        tutorNotes == IF HasTutorNotes(res) THEN res.tutorNotes ELSE DEFAULT_TUTOR_NOTES
    IN [res EXCEPT !.checkpoints = checkpoints, !.tutorNotes = tutorNotes]

MinCodeBlocks == 2
ManyLines == 60
VeryManyLines == 120
CodeRatioPercent == 35
Percent == 100

Max(a, b) == IF a >= b THEN a ELSE b

\* countCodeLikeLines(text) / Math.max(1, lineCount) > 0.35
LooksLikeCode(text) ==
    countCodeLikeLines(text) * Percent > CodeRatioPercent * Max(1, LineCount(text))

\* Variant for C13: sixty lines already count as many
SuspiciousFromSixty(text) ==
    \/ CodeBlockCount(text) >= MinCodeBlocks /\ LineCount(text) >= ManyLines
    \/ LineCount(text) > VeryManyLines /\ LooksLikeCode(text)

Suspicious(text) ==
    \/ CodeBlockCount(text) >= MinCodeBlocks /\ LineCount(text) > ManyLines
    \/ LineCount(text) > VeryManyLines /\ LooksLikeCode(text)

summarizeForLearner(toolName) ==
    CASE toolName = "explain_concept" ->
            "Concept explanations should be short, with checkpoints and examples only after you answer."
      [] OTHER -> "We'll proceed step-by-step with checkpoints before code."

SOLUTION_DUMP_MESSAGE ==
    "I'm not going to dump a full solution. Let's break this into smaller steps so you learn it instead of copy/paste."

GuardrailRedirect(ctx) ==
    Response(
        Out(<<Entry("message", Str(SOLUTION_DUMP_MESSAGE)),
              Entry("nextSteps",
                    Strs(<<"Tell me what you're building (inputs/outputs).",
                           "Show me your current attempt (even if it's messy).",
                           "I'll give Hint 2 (pseudocode) based on your attempt.">>)),
              Entry("originalSummary", Str(summarizeForLearner(ctx.toolName)))>>),
        Strs(<<"What have you tried so far? Paste the smallest relevant snippet.",
               "What do you expect to happen, and what actually happened?",
               "What part feels confusing: setup, logic, or debugging?">>),
        Str("This guardrail kicked in because the response looked like a large solution dump. We'll proceed with a hint ladder instead."),
        HintLadder(1, "Start with a plan + checkpoints. Ask for Hint 2 with your attempt."))

\* Variant for C12: the redirect keeps a hint ladder the handler supplied
applyAntiVibeGuardrailsKeepsLadder(res, ctx) ==
    IF ~Suspicious(stringifyOutput(res.output)) THEN res
    ELSE [GuardrailRedirect(ctx) EXCEPT
            !.hintLadder = Coalesce(res.hintLadder, GuardrailRedirect(ctx).hintLadder)]

applyAntiVibeGuardrails(res, ctx) ==
    IF ~Suspicious(stringifyOutput(res.output)) THEN res ELSE GuardrailRedirect(ctx)

\* Variant for C14: the default hint ladder attached whatever the handler gave
applyTutorPolicyResetsLadder(rawRes, ctx) ==
    LET withDefaults == ensureDefaults(rawRes)
        withGuardrails == applyAntiVibeGuardrails(withDefaults, ctx)
    IN [withGuardrails EXCEPT !.hintLadder = DEFAULT_HINT_LADDER]

applyTutorPolicy(rawRes, ctx) ==
    LET withDefaults == ensureDefaults(rawRes)
        withGuardrails == applyAntiVibeGuardrails(withDefaults, ctx)
    IN [withGuardrails EXCEPT
            !.hintLadder = Coalesce(withGuardrails.hintLadder, DEFAULT_HINT_LADDER)]

PolicyContext(toolName, learnerLevel) == [toolName |-> toolName, learnerLevel |-> learnerLevel]

----------------------------------------------------------------------------
(* Static tables: the glossary, the topic graph, the tracks *)

GlossaryKeys == {"http", "rest", "cors", "sql", "jwt"}

GlossaryEntry(concept, shortDefinition, whyItMatters, commonMistakes, beginnerExample, miniExercise) ==
    [t |-> "object", concept |-> Str(concept), shortDefinition |-> Str(shortDefinition),
     whyItMatters |-> Str(whyItMatters),
     commonMistakes |-> Arr([i \in 1..Len(commonMistakes) |-> Str(commonMistakes[i])]),
     beginnerExample |-> Str(beginnerExample), miniExercise |-> Str(miniExercise)]

\* GLOSSARY[key], an object literal indexed by a request string
GLOSSARY(key) ==
    CASE key = "http" ->
            GlossaryEntry("HTTP",
                "HTTP is the request/response protocol your browser uses to talk to servers.",
                "If you understand HTTP, API design, debugging, and security become way easier.",
                <<
                    "Thinking HTTP is 'the internet' (it's only one protocol).",
                    "Not understanding status codes (200, 404, 401, 500).",
                    "Ignoring headers (auth, caching, content-type).">>,
                "Your browser sends GET /profile, the server replies with a status code + headers + body (HTML/JSON).",
                "Pick a website you use. What HTTP method is used to load a page? What method would be used to submit a form?")
      [] key = "rest" ->
            GlossaryEntry("REST",
                "REST is a style for designing APIs around resources (like users, orders) using HTTP methods.",
                "Most real-world APIs you'll consume or build follow REST-ish conventions.",
                <<
                    "Using verbs in URLs everywhere (e.g., /getUsers).",
                    "Ignoring consistent error responses.",
                    "Mixing up PUT vs PATCH.">>,
                "GET /users (list), GET /users/123 (read), POST /users (create), PATCH /users/123 (partial update), DELETE /users/123 (remove).",
                "Design 4 endpoints for a 'notes' app. Write the method + URL for list/read/create/update.")
      [] key = "cors" ->
            GlossaryEntry("CORS",
                "CORS is a browser security rule that controls which websites can call your API from JavaScript.",
                "It's one of the most common 'why is my fetch blocked?' issues in frontend dev.",
                <<
                    "Thinking CORS is a server-to-server restriction (it's browser-enforced).",
                    "Setting Access-Control-Allow-Origin: * while also using credentials.",
                    "Not understanding preflight OPTIONS requests.">>,
                "If your frontend runs on http://localhost:4200 and your API is http://localhost:3333, the browser may block the request unless the API allows that origin.",
                "Explain: why can Postman call your API even when the browser can't?")
      [] key = "sql" ->
            GlossaryEntry("SQL",
                "SQL is a language for querying and updating data in relational databases (tables with rows/columns).",
                "Most backend systems store important data in relational DBs. SQL is a career skill.",
                <<
                    "Forgetting WHERE and updating/deleting too many rows.",
                    "Not understanding joins and duplicating data.",
                    "No indexes + slow queries at scale.">>,
                "SELECT name FROM users WHERE is_active = true ORDER BY created_at DESC;",
                "Given tables Users(id,name) and Orders(id,user_id,total), write in plain English what a JOIN does.")
      [] key = "jwt" ->
            GlossaryEntry("JWT",
                "A JWT is a signed token often used to prove a user is authenticated without storing session state on the server.",
                "JWTs are common in SPAs and APIs, but they're easy to misuse.",
                <<
                    "Putting secrets in the JWT payload (payload is readable).",
                    "Not validating expiration (exp).",
                    "Treating JWT as 'encryption' (it's usually just signed, not encrypted).">>,
                "Client logs in, receives a token, then sends Authorization: Bearer <token> on later requests.",
                "In one sentence: what does 'signed' mean compared to 'encrypted'?")
      [] key \in ObjectPrototypeKeys -> Inherited(key)
      [] OTHER -> Undefined

normalizeConcept(concept) == ToLowerCase(Trim(concept))

TopicIds ==
    {"internet_basics", "http_basics", "dns_hosting", "browser_request_lifecycle",
     "git_basics", "html_semantics", "css_layout", "js_fundamentals",
     "dom_basics", "fetch_ajax", "ts_fundamentals", "api_rest_basics",
     "openapi_basics", "auth_basics", "sql_basics", "db_normalization",
     "transactions_acid", "indexes_query_plans", "testing_basics", "ci_cd_basics",
     "security_basics", "cors_basics", "tls_basics", "caching_basics",
     "observability_basics", "queues_basics", "ddd_basics", "cqrs_basics"}

\* Variant for C19: a topic that lists itself among its prerequisites
TopicNodeRequiresItself(id, title, description, prerequisites, tags) ==
    [id |-> id, title |-> title, description |-> description,
     prerequisites |-> Append(prerequisites, id), tags |-> tags]

TopicNode(id, title, description, prerequisites, tags) ==
    [id |-> id, title |-> title, description |-> description,
     prerequisites |-> prerequisites, tags |-> tags]

\* TOPICS[id], for an id that isTopicId accepts
TOPICS(id) ==
    CASE id = "internet_basics" ->
            TopicNode(id, "Internet Basics",
                "How the internet works at a high level (clients, servers, packets, latency).",
                <<>>, <<"foundation", "fullstack">>)
      [] id = "http_basics" ->
            TopicNode(id, "HTTP Basics",
                "Requests/responses, methods, status codes, headers, cookies.",
                <<"internet_basics">>, <<"foundation", "fullstack">>)
      [] id = "dns_hosting" ->
            TopicNode(id, "DNS + Hosting Basics",
                "Domains, DNS records, where apps run, what 'hosting' really means.",
                <<"internet_basics">>, <<"foundation", "fullstack">>)
      [] id = "browser_request_lifecycle" ->
            TopicNode(id, "Browser Request Lifecycle",
                "What happens when you type a URL: DNS -> TCP/TLS -> HTTP -> rendering.",
                <<"http_basics", "dns_hosting">>, <<"foundation", "frontend", "fullstack">>)
      [] id = "git_basics" ->
            TopicNode(id, "Git Basics",
                "Commits, branches, merges, PRs, resolving conflicts.",
                <<>>, <<"foundation", "fullstack">>)
      [] id = "html_semantics" ->
            TopicNode(id, "HTML Semantics",
                "Semantic tags, forms, accessibility basics.",
                <<>>, <<"frontend">>)
      [] id = "css_layout" ->
            TopicNode(id, "CSS Layout",
                "Box model, flexbox, grid, responsive design.",
                <<"html_semantics">>, <<"frontend">>)
      [] id = "js_fundamentals" ->
            TopicNode(id, "JavaScript Fundamentals",
                "Variables, functions, objects, async, promises, error handling.",
                <<"html_semantics">>, <<"frontend", "fullstack">>)
      [] id = "dom_basics" ->
            TopicNode(id, "DOM Basics",
                "Selecting nodes, events, manipulating DOM safely.",
                <<"js_fundamentals">>, <<"frontend">>)
      [] id = "fetch_ajax" ->
            TopicNode(id, "Fetch / AJAX",
                "Calling APIs from the browser; JSON; basic error handling.",
                <<"http_basics", "js_fundamentals">>, <<"frontend", "fullstack">>)
      [] id = "ts_fundamentals" ->
            TopicNode(id, "TypeScript Fundamentals",
                "Types, interfaces, generics, narrowing-writing safer JS.",
                <<"js_fundamentals">>, <<"frontend", "fullstack">>)
      [] id = "api_rest_basics" ->
            TopicNode(id, "REST API Basics",
                "Resources, routes, DTOs, pagination, error contracts.",
                <<"http_basics">>, <<"backend", "fullstack">>)
      [] id = "openapi_basics" ->
            TopicNode(id, "OpenAPI / Swagger Basics",
                "Documenting APIs, schemas, and clients.",
                <<"api_rest_basics">>, <<"backend", "fullstack">>)
      [] id = "auth_basics" ->
            TopicNode(id, "Auth Basics",
                "Sessions vs JWT, OAuth overview, auth vs authorization.",
                <<"http_basics", "api_rest_basics">>, <<"backend", "security", "fullstack">>)
      [] id = "sql_basics" ->
            TopicNode(id, "SQL Basics",
                "SELECT/INSERT/UPDATE/DELETE, joins, filtering, grouping.",
                <<>>, <<"backend", "fullstack">>)
      [] id = "db_normalization" ->
            TopicNode(id, "Database Normalization",
                "1NF/2NF/3NF thinking; preventing duplication and anomalies.",
                <<"sql_basics">>, <<"backend">>)
      [] id = "transactions_acid" ->
            TopicNode(id, "Transactions + ACID",
                "Atomicity, consistency, isolation, durability; when to use transactions.",
                <<"sql_basics">>, <<"backend">>)
      [] id = "indexes_query_plans" ->
            TopicNode(id, "Indexes + Query Plans",
                "Why indexes help, when they hurt, and reading query plans.",
                <<"sql_basics", "db_normalization">>, <<"backend">>)
      [] id = "testing_basics" ->
            TopicNode(id, "Testing Basics",
                "Unit vs integration; what to test; test pyramid basics.",
                <<>>, <<"testing", "fullstack">>)
      [] id = "ci_cd_basics" ->
            TopicNode(id, "CI/CD Basics",
                "Build pipelines, running tests automatically, deploying safely.",
                <<"testing_basics", "git_basics">>, <<"testing", "fullstack">>)
      [] id = "security_basics" ->
            TopicNode(id, "Security Basics",
                "Input validation, least privilege, OWASP mindset.",
                <<"http_basics", "api_rest_basics">>, <<"security", "fullstack">>)
      [] id = "cors_basics" ->
            TopicNode(id, "CORS Basics",
                "Same-origin policy, preflight, safe browser API calls.",
                <<"http_basics", "fetch_ajax">>, <<"security", "frontend", "fullstack">>)
      [] id = "tls_basics" ->
            TopicNode(id, "TLS / HTTPS Basics",
                "What HTTPS protects, certificates, common misconceptions.",
                <<"http_basics", "dns_hosting">>, <<"security", "fullstack">>)
      [] id = "caching_basics" ->
            TopicNode(id, "Caching Basics",
                "Why caching exists, cache invalidation, HTTP vs server caches.",
                <<"http_basics", "api_rest_basics">>, <<"architecture", "fullstack">>)
      [] id = "observability_basics" ->
            TopicNode(id, "Observability Basics",
                "Logs, metrics, traces; how to debug systems in production.",
                <<"api_rest_basics">>, <<"architecture", "fullstack">>)
      [] id = "queues_basics" ->
            TopicNode(id, "Queues Basics",
                "Async processing, retries, DLQs, eventual consistency.",
                <<"api_rest_basics">>, <<"architecture", "backend">>)
      [] id = "ddd_basics" ->
            TopicNode(id, "DDD Basics",
                "Bounded contexts, aggregates, ubiquitous language.",
                <<"api_rest_basics", "sql_basics">>, <<"architecture", "backend">>)
      [] id = "cqrs_basics" ->
            TopicNode(id, "CQRS Basics",
                "Separating reads/writes, when it helps, when it's overkill.",
                <<"ddd_basics">>, <<"architecture", "backend">>)

\* Object.prototype.hasOwnProperty.call(TOPICS, value)
isTopicId(value) == value \in TopicIds

\* Variant for C27: the foundation track with its first two topics swapped
TRACKSHttpFirst(track) ==
    CASE track = "foundation" ->
            <<"http_basics", "internet_basics", "dns_hosting",
              "browser_request_lifecycle", "git_basics">>
      [] track = "frontend" ->
            <<"html_semantics", "css_layout", "js_fundamentals", "dom_basics",
              "fetch_ajax", "ts_fundamentals", "cors_basics">>
      [] track = "backend" ->
            <<"sql_basics", "db_normalization", "transactions_acid", "api_rest_basics",
              "openapi_basics", "auth_basics", "indexes_query_plans">>
      [] track = "fullstack" ->
            <<"internet_basics", "http_basics", "git_basics", "html_semantics",
              "js_fundamentals", "api_rest_basics", "fetch_ajax", "auth_basics",
              "sql_basics", "testing_basics", "ci_cd_basics", "security_basics">>

TRACKS(track) ==
    CASE track = "foundation" ->
            <<"internet_basics", "http_basics", "dns_hosting",
              "browser_request_lifecycle", "git_basics">>
      [] track = "frontend" ->
            <<"html_semantics", "css_layout", "js_fundamentals", "dom_basics",
              "fetch_ajax", "ts_fundamentals", "cors_basics">>
      [] track = "backend" ->
            <<"sql_basics", "db_normalization", "transactions_acid", "api_rest_basics",
              "openapi_basics", "auth_basics", "indexes_query_plans">>
      [] track = "fullstack" ->
            <<"internet_basics", "http_basics", "git_basics", "html_semantics",
              "js_fundamentals", "api_rest_basics", "fetch_ajax", "auth_basics",
              "sql_basics", "testing_basics", "ci_cd_basics", "security_basics">>

----------------------------------------------------------------------------
(* diagnostics: analyzeAnswers, the classifier of learner answers.  Answers,
   gaps and analyses are typed values inside the module: plain strings and
   records *)

KEYWORD_MAP(gap) ==
    CASE gap = "terminology" -> <<"define", "term", "called", "means">>
      [] gap = "conceptual" -> <<"why", "because", "difference", "purpose">>
      [] gap = "application" -> <<"use", "example", "when", "how">>
      [] gap = "unknown" -> <<>>

\* words.some((w) => text.includes(w))
containsAny(text, words) == \E i \in DOMAIN words : Includes(text, words[i])

MinClassifiableLen == 15

AnswerAnalysis(questionId, gap, reasoning) ==
    [questionId |-> questionId, gap |-> gap, reasoning |-> reasoning]

\* Variant for C20: the conceptual keywords are tried before the application
\* keywords
ClassifyAnswerConceptualFirst(a, idx) ==
    LET normalized == ToLowerCase(a)
    IN IF Len(normalized) < MinClassifiableLen
       THEN AnswerAnalysis(idx + 1, "terminology",
                "Very short answer suggests missing definitions or vocabulary.")
       ELSE IF containsAny(normalized, KEYWORD_MAP("conceptual"))
       THEN AnswerAnalysis(idx + 1, "conceptual",
                "Answer discusses relationships or reasoning but may miss clarity.")
       ELSE IF containsAny(normalized, KEYWORD_MAP("application"))
       THEN AnswerAnalysis(idx + 1, "application",
                "Answer references usage or examples but may lack structure.")
       ELSE AnswerAnalysis(idx + 1, "unknown", "Answer was too short or vague to classify.")

\* The callback of answers.map in analyzeAnswers; idx counts from 0
ClassifyAnswer(a, idx) ==
    LET normalized == ToLowerCase(a)
    IN IF Len(normalized) < MinClassifiableLen
       THEN AnswerAnalysis(idx + 1, "terminology",
                "Very short answer suggests missing definitions or vocabulary.")
       ELSE IF containsAny(normalized, KEYWORD_MAP("application"))
       THEN AnswerAnalysis(idx + 1, "application",
                "Answer references usage or examples but may lack structure.")
       ELSE IF containsAny(normalized, KEYWORD_MAP("conceptual"))
       THEN AnswerAnalysis(idx + 1, "conceptual",
                "Answer discusses relationships or reasoning but may miss clarity.")
       ELSE AnswerAnalysis(idx + 1, "unknown", "Answer was too short or vague to classify.")

\* The keys of counts, in the order Object.entries lists them
GapOrder == <<"terminology", "conceptual", "application", "unknown">>

CountGap(analyses, gap) == Cardinality({i \in DOMAIN analyses : analyses[i].gap = gap})

\* Variant for C21: of the gaps with the greatest count the last in GapOrder
pickPrimaryGapLastWins(analyses) ==
    LET best == CHOOSE i \in DOMAIN GapOrder :
                    /\ \A j \in DOMAIN GapOrder :
                          CountGap(analyses, GapOrder[j]) <= CountGap(analyses, GapOrder[i])
                    /\ \A j \in (i + 1)..Len(GapOrder) :
                          CountGap(analyses, GapOrder[j]) < CountGap(analyses, GapOrder[i])
    IN GapOrder[best]

\* Object.entries(counts).sort((a, b) => b[1] - a[1])[0][0]: the sort is
\* stable, so of the gaps with the greatest count the first in GapOrder
pickPrimaryGap(analyses) ==
    LET best == CHOOSE i \in DOMAIN GapOrder :
                    /\ \A j \in DOMAIN GapOrder :
                          CountGap(analyses, GapOrder[j]) <= CountGap(analyses, GapOrder[i])
                    /\ \A j \in 1..(i - 1) :
                          CountGap(analyses, GapOrder[j]) < CountGap(analyses, GapOrder[i])
    IN GapOrder[best]

\* Variant for C22: half of the answers unknown is already low
estimateConfidenceHalfIsLow(analyses) ==
    LET unknowns == CountGap(analyses, "unknown")
    IN IF 2 * unknowns >= Len(analyses) /\ unknowns > 0 THEN "low"
       ELSE IF unknowns > 0 THEN "medium"
       ELSE "high"

estimateConfidence(analyses) ==
    LET unknowns == CountGap(analyses, "unknown")
    IN IF 2 * unknowns > Len(analyses) THEN "low"
       ELSE IF unknowns > 0 THEN "medium"
       ELSE "high"

analyzeAnswers(topic, answers) ==
    LET analyses == [i \in 1..Len(answers) |-> ClassifyAnswer(answers[i], i - 1)]
    IN [topic |-> topic,
        analyses |-> analyses,
        summary |-> [primaryGap |-> pickPrimaryGap(analyses),
                     confidence |-> estimateConfidence(analyses)]]

----------------------------------------------------------------------------
(* explain_concept *)

guessAlias(key) ==
    IF key = "swagger" \/ key = "openapi" THEN "rest"
    ELSE IF key = "https" \/ key = "tls" THEN "http"
    ELSE key

\* buildDemoOutline(concept), for a string concept
buildDemoOutline(concept) ==
    LET c == ToLowerCase(concept)
    IN CASE c = "http" ->
                Strs(<<"Make a simple GET endpoint that returns JSON { ok: true }",
                       "Call it with curl and observe: status code + headers + body",
                       "Change the endpoint to return 404 and observe what changes">>)
         [] c = "rest" ->
                Strs(<<"Pick a resource: notes",
                       "Define routes: list, read, create, update",
                       "Write example request/response JSON for each route (no code yet)">>)
         [] c = "cors" ->
                Strs(<<"Run a frontend on one localhost port and an API on another",
                       "Make a fetch call and observe the browser error",
                       "Add a server CORS allowlist for the frontend origin and retry">>)
         [] c = "sql" ->
                Strs(<<"Create two tables: users and orders (on paper is fine)",
                       "Write a query to list orders with the user name",
                       "Explain in words why the JOIN is needed">>)
         [] c = "jwt" ->
                Strs(<<"Write down a login flow: request, response, where token is stored",
                       "List 3 fields a token might include (sub, exp, roles)",
                       "Explain what the server must verify on every request">>)
         [] OTHER ->
                Strs(<<"Define the smallest possible example that proves you understand the concept.",
                       "Write the expected input/output.",
                       "List common failure modes and how you'd detect them.">>)

\* explainConceptTool.execute(input, ctx): what the promise settles to
explainConceptExecute(input, ctx) ==
    LET rawConcept == input.concept.v
        key == normalizeConcept(rawConcept)
        entry == Coalesce(GLOSSARY(key), Coalesce(GLOSSARY(guessAlias(key)), Null))
        hintLevel == Coalesce(Get(input, "hintLevel"), Num(1))
    IN IF ~Truthy(entry)
       THEN Resolved(Response(
                Out(<<Entry("concept", Str(rawConcept)),
                      Entry("message", Str("I don't have this concept in my built-in glossary yet. I can still help, but we'll do it Socratically.")),
                      Entry("approach",
                            Strs(<<"Tell me what you *think* it means.",
                                   "Tell me where you encountered it (tutorial, error message, code).",
                                   "Then I'll correct gaps and give you a tiny demo outline.">>))>>),
                Strs(<<"Where did you run into \"" \o rawConcept \o "\"? (what were you doing?)",
                       "What do you currently believe \"" \o rawConcept \o "\" means?",
                       "What would be a real-world use case for it?">>),
                Str("Answer these first. Then ask again and include your answers so I can tailor the explanation."),
                Undefined))
       ELSE IF hintLevel = Num(1)
       THEN Resolved(Response(
                Out(<<Entry("concept", Get(entry, "concept")),
                      Entry("shortDefinition", Get(entry, "shortDefinition")),
                      Entry("whyItMatters", Get(entry, "whyItMatters")),
                      Entry("commonMistakes", Get(entry, "commonMistakes"))>>),
                Strs(<<"In your own words, restate: \""
                            \o Interpolate(Get(entry, "shortDefinition")) \o "\"",
                       "Which common mistake feels most likely for you, and why?",
                       "What's one question you still have about this concept?">>),
                Str("If you answer these, ask for Hint 2 and I'll give a tiny demo outline + a mini exercise."),
                HintLadder(1, "Concept + why it matters + common mistakes. Answer checkpoints to unlock Hint 2.")))
       \* undefined.toLowerCase() in buildDemoOutline is a TypeError
       ELSE IF Get(entry, "concept").t # "string" THEN Threw
       ELSE Resolved(Response(
                Out(<<Entry("concept", Get(entry, "concept")),
                      Entry("beginnerExample", Get(entry, "beginnerExample")),
                      Entry("miniExercise", Get(entry, "miniExercise")),
                      Entry("demoOutline", buildDemoOutline(Get(entry, "concept").v))>>),
                Strs(<<"Write down the expected input/output of the demo (even if it's tiny).",
                       "What would you test first to prove it works?",
                       "What's the most likely bug you'll hit building it?">>),
                Str("Build the demo outline yourself. If you get stuck, paste your attempt and ask for a smaller hint."),
                HintLadder(2, "Demo outline + mini exercise. Paste your attempt for more targeted hints.")))

----------------------------------------------------------------------------
(* next_topic *)

RECURSIVE pickNextTopic(_, _)
\* The first id of ordered that completed does not hold, or Null
RECURSIVE pickNextTopicFromEnd(_, _)
\* Variant for C16: the scan runs from the end of the track
pickNextTopicFromEnd(ordered, completed) ==
    IF ordered = <<>> THEN Null
    ELSE IF ordered[Len(ordered)] \notin completed THEN Str(ordered[Len(ordered)])
    ELSE pickNextTopicFromEnd(SubSeq(ordered, 1, Len(ordered) - 1), completed)

pickNextTopic(ordered, completed) ==
    IF ordered = <<>> THEN Null
    ELSE IF Head(ordered) \notin completed THEN Str(Head(ordered))
    ELSE pickNextTopic(Tail(ordered), completed)

MissingPrereqs(node, completed) ==
    SelectSeq(node.prerequisites, LAMBDA p : p \notin completed)

\* Variant for C18: the advisory lists every prerequisite of the topic
buildWhyListsAll(node, completed) ==
    IF Len(node.prerequisites) > 0
    THEN "You asked for this next, but you're missing prerequisites: "
             \o Join(node.prerequisites, ", ")
             \o ". We can either backfill those or proceed carefully."
    ELSE "This is the next topic in the track sequence and unlocks later concepts."

buildWhy(node, completed) ==
    LET missingPrereqs == MissingPrereqs(node, completed)
    IN IF Len(missingPrereqs) > 0
       THEN "You asked for this next, but you're missing prerequisites: "
                \o Join(missingPrereqs, ", ")
                \o ". We can either backfill those or proceed carefully."
       ELSE "This is the next topic in the track sequence and unlocks later concepts."

\* Variant for C17: the supplied currentTopic is not added
CompletedSetWithoutCurrent(input, ctx) ==
    {ctx.previousTopics.items[i].v : i \in 1..Len(ctx.previousTopics.items)} \cap TopicIds

\* new Set(ctx.previousTopics.filter(isTopicId)), then the currentTopic
CompletedSet(input, ctx) ==
    LET previous == {ctx.previousTopics.items[i].v : i \in 1..Len(ctx.previousTopics.items)}
                        \cap TopicIds
        currentTopic == Get(input, "currentTopic")
    IN IF Truthy(currentTopic) /\ isTopicId(currentTopic.v)
       THEN previous \cup {currentTopic.v}
       ELSE previous

\* nextTopicTool.execute(input, ctx): what the promise settles to
nextTopicExecute(input, ctx) ==
    LET track == Coalesce(Get(input, "track"), Str("fullstack")).v
        previous == CompletedSet(input, ctx)
        next == pickNextTopic(TRACKS(track), previous)
    IN IF ~Truthy(next)
       THEN Resolved(Response(
                Out(<<Entry("message", Str("Nice - you've completed the " \o track
                                            \o " track topics we currently have.")),
                      Entry("suggestion", Str("Ask for a practice project next, or switch tracks."))>>),
                Strs(<<"Which of these do you feel weakest on: HTTP, APIs, SQL, or debugging?",
                       "Do you want a small practice task (30-60 min) or a mini project (2-4 hrs)?">>),
                Str("We can generate a practice task next once you pick a focus area."),
                Undefined))
       ELSE LET node == TOPICS(next.v)
            IN Resolved(Response(
                Out(<<Entry("track", Str(track)),
                      Entry("nextTopic",
                            Out(<<Entry("id", Str(node.id)),
                                  Entry("title", Str(node.title)),
                                  Entry("description", Str(node.description)),
                                  Entry("prerequisites", Strs(node.prerequisites))>>)),
                      Entry("whyThisNext", Str(buildWhy(node, previous))),
                      Entry("studyPlan",
                            Strs(<<"Define the concept in your own words (no googling first).",
                                   "Find 1 real example in a codebase or docs.",
                                   "Build a tiny demo (smallest possible).",
                                   "Write down 2 mistakes beginners make and how to avoid them.">>))>>),
                Strs(<<"What do you already know about \"" \o node.title \o "\"? (2-3 sentences)",
                       "Which prerequisite feels fuzzy: "
                            \o (IF Len(node.prerequisites) > 0
                                THEN Join(node.prerequisites, ", ") ELSE "none")
                            \o "?",
                       "What tiny demo could you build in 15 minutes to prove you understand it?">>),
                Str("Don't jump to tutorials yet-answer these checkpoints first, then I'll give Hint 2 (a demo outline)."),
                Undefined))

----------------------------------------------------------------------------
(* assess_knowledge and analyze_assessment.  What an execute returns here
   also lists, in calls, the tables it indexed and the functions it called,
   in program order *)

DiagnosticQuestion(question, whatItTests) ==
    [question |-> question, whatItTests |-> whatItTests]

DiagnosticTopics ==
    {"http_basics", "api_rest_basics", "sql_basics", "cors_basics", "auth_basics"}

DiagnosticQuestions(topic) ==
    CASE topic = "http_basics" ->
            <<DiagnosticQuestion("What is the difference between GET and POST?",
                                 "Understanding of HTTP methods and intent"),
              DiagnosticQuestion("What does a 404 status code mean?",
                                 "Status code literacy"),
              DiagnosticQuestion("Where do headers fit into an HTTP request?",
                                 "Request structure comprehension")>>
      [] topic = "api_rest_basics" ->
            <<DiagnosticQuestion("What is a resource in REST?", "REST mental model"),
              DiagnosticQuestion("When would you use PATCH instead of PUT?",
                                 "Update semantics")>>
      [] topic = "sql_basics" ->
            <<DiagnosticQuestion("What does a JOIN do in SQL?", "Relational thinking"),
              DiagnosticQuestion("What happens if you run UPDATE without a WHERE clause?",
                                 "Data safety awareness")>>
      [] topic = "cors_basics" ->
            <<DiagnosticQuestion("Who enforces CORS: the browser or the server?",
                                 "Security model understanding"),
              DiagnosticQuestion("Why can Postman call an API even when the browser cannot?",
                                 "CORS scope comprehension")>>
      [] topic = "auth_basics" ->
            <<DiagnosticQuestion("What is the difference between authentication and authorization?",
                                 "Auth vocabulary"),
              DiagnosticQuestion("What problem does a JWT solve?",
                                 "Stateless auth understanding")>>

\* DIAGNOSTICS[topic], for a topic that isTopicId accepts
DIAGNOSTICS(topic) ==
    IF topic \in DiagnosticTopics
    THEN [t |-> "object", topic |-> topic, questions |-> DiagnosticQuestions(topic)]
    ELSE Undefined

\* An execute that returned value after making these calls
Returned(value, calls) == [threw |-> FALSE, value |-> value, calls |-> calls]

\* An execute that threw after making these calls
Thrown(calls) == [threw |-> TRUE, calls |-> calls]

\* isTopicId(value), for any value: the key is String(value)
IsTopic(value) == isTopicId(Interpolate(value))

assessKnowledgeExecute(input, ctx) ==
    LET rawTopic == Get(input, "topic")
    IN IF ~IsTopic(rawTopic)
       THEN Returned(Response(
                Out(<<Entry("message", Str("I don't recognize \"" \o Interpolate(rawTopic)
                                            \o "\" as a curriculum topic.")),
                      Entry("suggestion", Str("Ask for next_topic to see valid topics."))>>),
                Strs(<<"Which topic are you trying to assess?",
                       "Is this frontend, backend, or fullstack?">>),
                Str("Use next_topic if you're unsure what to study next."),
                Undefined),
                <<"isTopicId">>)
       ELSE LET diagnostic == DIAGNOSTICS(Interpolate(rawTopic))
                topicNode == TOPICS(Interpolate(rawTopic))
            IN IF ~Truthy(diagnostic)
               THEN Returned(Response(
                        Out(<<Entry("topic", Str(topicNode.title)),
                              Entry("message", Str("I don't have diagnostic questions for this topic yet.")),
                              Entry("suggestion", Str("We can still proceed by explaining the concept or doing a practice task."))>>),
                        Strs(<<"What do you already know about \"" \o topicNode.title \o "\"?",
                               "What feels confusing or unclear?">>),
                        Str("Answer these and I'll tailor the next step."),
                        Undefined),
                        <<"isTopicId", "DIAGNOSTICS", "TOPICS">>)
               ELSE Returned(Response(
                        Out(<<Entry("topic", Str(topicNode.title)),
                              Entry("description", Str(topicNode.description)),
                              Entry("instructions", Str("Answer these questions honestly without looking anything up. This is about finding gaps, not passing.")),
                              Entry("questions",
                                    Arr([i \in 1..Len(diagnostic.questions) |->
                                            Out(<<Entry("id", Num(i)),
                                                  Entry("question",
                                                        Str(diagnostic.questions[i].question))>>)])),
                              Entry("howToAnswer", Str("Short bullet points or 1-2 sentences per question is enough."))>>),
                        Strs(<<"Answer all questions before asking for feedback.",
                               "Mark any question you feel unsure about.">>),
                        Str("After you answer, paste your responses and I'll analyze gaps and recommend the next topic or practice task."),
                        Undefined),
                        <<"isTopicId", "DIAGNOSTICS", "TOPICS">>)

buildRecommendation(gap, topic) ==
    CASE gap = "terminology" ->
            Out(<<Entry("nextStep", Str("explain_concept")),
                  Entry("hintLevel", Num(1)),
                  Entry("reason", Str("You need clearer definitions before applying the concept.")),
                  Entry("payload", Out(<<Entry("concept", Str(topic))>>))>>)
      [] gap = "conceptual" ->
            Out(<<Entry("nextStep", Str("explain_concept")),
                  Entry("hintLevel", Num(2)),
                  Entry("reason", Str("You understand the words but need a clearer mental model.")),
                  Entry("payload", Out(<<Entry("concept", Str(topic)),
                                         Entry("hintLevel", Num(2))>>))>>)
      [] gap = "application" ->
            Out(<<Entry("nextStep", Str("practice_task")),
                  Entry("reason", Str("You need hands-on usage to solidify understanding.")),
                  Entry("suggestion", Str("Ask for a small practice task next."))>>)
      [] OTHER ->
            Out(<<Entry("nextStep", Str("next_topic")),
                  Entry("reason", Str("Let's move forward and revisit this later."))>>)

\* analysis.analyses and analysis.summary as they appear in output
AnalysesOut(analyses) ==
    Arr([i \in 1..Len(analyses) |->
            Out(<<Entry("questionId", Num(analyses[i].questionId)),
                  Entry("gap", Str(analyses[i].gap)),
                  Entry("reasoning", Str(analyses[i].reasoning))>>)])

SummaryOut(summary) ==
    Out(<<Entry("primaryGap", Str(summary.primaryGap)),
          Entry("confidence", Str(summary.confidence))>>)

\* analyze_assessment's early return for a topic isTopicId rejects
UnknownTopicReturn(topic) ==
    Returned(Response(
        Out(<<Entry("message", Str("Unknown topic \"" \o Interpolate(topic) \o "\"."))>>),
        Strs(<<"Use assess_knowledge to pick a valid topic first.">>),
        Undefined,
        Undefined),
        <<"isTopicId">>)

\* analyze_assessment's early return for answers it cannot analyze
NoAnswersReturn ==
    Returned(Response(
        Out(<<Entry("message", Str("No answers provided to analyze."))>>),
        Strs(<<"Paste your answers as an array of strings.">>),
        Undefined,
        Undefined),
        <<"isTopicId">>)

\* analyze_assessment after its two checks, answers an array
AnalysisReturn(topic, answers) ==
    \* a.toLowerCase() of an answer that is not a string is a TypeError
    IF \E i \in 1..Len(answers.items) : answers.items[i].t # "string"
    THEN Thrown(<<"isTopicId", "analyzeAnswers">>)
    ELSE LET analysis == analyzeAnswers(Interpolate(topic),
                            [i \in 1..Len(answers.items) |-> answers.items[i].v])
             topicNode == TOPICS(Interpolate(topic))
         IN Returned(Response(
                Out(<<Entry("topic", Str(topicNode.title)),
                      Entry("analysis", AnalysesOut(analysis.analyses)),
                      Entry("summary", SummaryOut(analysis.summary)),
                      Entry("recommendation",
                            buildRecommendation(analysis.summary.primaryGap,
                                                Interpolate(topic)))>>),
                Strs(<<"Do you agree with where the gaps are?",
                       "Which question felt hardest to answer?">>),
                Str("If this looks right, follow the recommendation. If not, tell me where it feels off."),
                Undefined),
                <<"isTopicId", "analyzeAnswers", "TOPICS">>)

\* Variant for C23: an empty array of answers is analyzed like any other
analyzeAssessmentExecuteAnalyzesEmpty(input, ctx) ==
    LET topic == Get(input, "topic")
        answers == Get(input, "answers")
    IN IF ~IsTopic(topic) THEN UnknownTopicReturn(topic)
       ELSE IF ~IsArray(answers) THEN NoAnswersReturn
       ELSE AnalysisReturn(topic, answers)

\* Variant for C24: the answers are checked before the topic
analyzeAssessmentExecuteAnswersFirst(input, ctx) ==
    LET topic == Get(input, "topic")
        answers == Get(input, "answers")
    IN IF ~IsArray(answers) \/ Len(answers.items) = 0 THEN NoAnswersReturn
       ELSE IF ~IsTopic(topic) THEN UnknownTopicReturn(topic)
       ELSE AnalysisReturn(topic, answers)

analyzeAssessmentExecute(input, ctx) ==
    LET topic == Get(input, "topic")
        answers == Get(input, "answers")
    IN IF ~IsTopic(topic) THEN UnknownTopicReturn(topic)
       ELSE IF ~IsArray(answers) \/ Len(answers.items) = 0 THEN NoAnswersReturn
       ELSE AnalysisReturn(topic, answers)

----------------------------------------------------------------------------
(* toolRegistry: the process-wide Map, registerTool and getTool *)

Tool(name, impl) == [t |-> "object", name |-> name, impl |-> impl]

explainConceptTool == Tool("explain_concept", "explainConceptTool")
nextTopicTool == Tool("next_topic", "nextTopicTool")
assessKnowledgeTool == Tool("assess_knowledge", "assessKnowledgeTool")
analyzeAssessmentTool == Tool("analyze_assessment", "analyzeAssessmentTool")

\* tool.execute(input, ctx), by the object registered
Execute(tool, input, ctx) ==
    CASE tool.impl = "explainConceptTool" -> explainConceptExecute(input, ctx)
      [] tool.impl = "nextTopicTool" -> nextTopicExecute(input, ctx)
      [] tool.impl = "assessKnowledgeTool" -> assessKnowledgeExecute(input, ctx)
      [] tool.impl = "analyzeAssessmentTool" -> analyzeAssessmentExecute(input, ctx)

EmptyMap == [k \in {} |-> Undefined]

\* Map.prototype.set
MapSet(map, key, value) ==
    [k \in DOMAIN map \cup {key} |-> IF k = key THEN value ELSE map[k]]

\* Map.prototype.get
MapGet(map, key) == IF key \in DOMAIN map THEN map[key] ELSE Undefined

\* Variant for C7: the first registration of a name wins
registerToolOnce(map, tool) ==
    IF tool.name \in DOMAIN map THEN map ELSE MapSet(map, tool.name, tool)

\* registerTool(tool): the Map afterwards
registerTool(map, tool) == MapSet(map, tool.name, tool)

\* getTool(name)
getTool(map, name) == MapGet(map, name)

NoLookup == [name |-> "", result |-> Undefined, made |-> FALSE]

----------------------------------------------------------------------------
(* main(): the statements of the server's startup, in program order *)

\* Variant for C8: the server listens before the second tool is registered
MainProgramListensEarly ==
    <<[op |-> "registerErrorHandler"],
      [op |-> "registerRoutes"],
      [op |-> "registerTool", tool |-> explainConceptTool],
      [op |-> "listen"],
      [op |-> "registerTool", tool |-> nextTopicTool]>>

MainProgram ==
    <<[op |-> "registerErrorHandler"],
      [op |-> "registerRoutes"],
      [op |-> "registerTool", tool |-> explainConceptTool],
      [op |-> "registerTool", tool |-> nextTopicTool],
      [op |-> "listen"]>>

MainAt(op) == mainPc <= Len(MainProgram) /\ MainProgram[mainPc].op = op

MainRegisterErrorHandler ==
    /\ MainAt("registerErrorHandler")
    /\ errorHandler' = TRUE
    /\ mainPc' = mainPc + 1
    /\ UNCHANGED <<routes, listening, registryVars, requestVars, policyVars, callVars>>

MainRegisterRoutes ==
    /\ MainAt("registerRoutes")
    /\ routes' = TRUE
    /\ mainPc' = mainPc + 1
    /\ UNCHANGED <<errorHandler, listening, registryVars, requestVars, policyVars, callVars>>

MainRegisterTool ==
    /\ MainAt("registerTool")
    /\ tools' = registerTool(tools, MainProgram[mainPc].tool)
    /\ regLog' = Append(regLog, MainProgram[mainPc].tool)
    /\ mainPc' = mainPc + 1
    /\ UNCHANGED <<errorHandler, routes, listening, lookup, requestVars, policyVars, callVars>>

MainListen ==
    /\ MainAt("listen")
    /\ listening' = TRUE
    /\ mainPc' = mainPc + 1
    /\ UNCHANGED <<errorHandler, routes, registryVars, requestVars, policyVars, callVars>>

----------------------------------------------------------------------------
(* The requests the model sends: POST /mcp bodies *)

Body(toolName, input, userContext) ==
    [t |-> "object", toolName |-> toolName, input |-> input, userContext |-> userContext]

UserContext(learnerLevel, previousTopics) ==
    [t |-> "object", learnerLevel |-> learnerLevel, previousTopics |-> previousTopics]

ToolNameValues ==
    {Undefined, Num(7), Str(""), Str("explain_concept"), Str("next_topic"),
     Str("assess_knowledge"), Str("analyze_assessment"), Str("practice_task"),
     Str("toString")}

UserContextValues ==
    {Undefined,
     Str("beginner"),
     UserContext(Undefined, Undefined),
     UserContext(Str("intermediate"), Strs(<<"internet_basics">>)),
     UserContext(Str("beginner"), Strs(<<"internet_basics", "http_basics", "not_a_topic">>)),
     UserContext(Str("expert"), Undefined),
     UserContext(Undefined, Arr(<<Num(1)>>))}

ConceptValues ==
    {Undefined, Num(7), Str(""), Str("http"), Str(" HTTP "), Str("swagger"),
     Str("monad"), Str("constructor")}

HintLevelValues == {Undefined, Num(1), Num(2), Num(3)}

ExplainInputs ==
    {[t |-> "object", concept |-> c, hintLevel |-> h] :
        c \in ConceptValues, h \in HintLevelValues}
    \cup {[t |-> "object", concept |-> c, hintLevel |-> Num(2), solution |-> Str("full")] :
        c \in {Str("http"), Str("monad")}}

NextTopicInputs ==
    {[t |-> "object", track |-> tr, currentTopic |-> cur] :
        tr \in {Undefined, Str("foundation"), Str("mobile")},
        cur \in {Undefined, Str(""), Str("internet_basics"), Str("not_a_topic")}}
    \cup {[t |-> "object", track |-> Str("foundation"), currentTopic |-> Num(3)]}

AssessmentInputs ==
    {[t |-> "object", topic |-> Str("http_basics")],
     [t |-> "object", topic |-> Str("http_basics"), answers |-> Strs(<<"ok">>)],
     [t |-> "object", topic |-> Str(""), answers |-> Arr(<<Str(""), Num(1)>>)]}

InputValues ==
    {Undefined, Null, Str("http")} \cup ExplainInputs \cup NextTopicInputs \cup AssessmentInputs

Bodies ==
    {Undefined}
    \cup {Body(n, i, u) : n \in ToolNameValues, i \in InputValues, u \in UserContextValues}

----------------------------------------------------------------------------
(* POST /mcp (registerRoutes) and handleMCPRequest *)

NoReply == [kind |-> "none"]
HttpError(status, error, message, issues) ==
    [kind |-> "error", status |-> status, error |-> error, message |-> message,
     issues |-> issues]
HttpOk(response) == [kind |-> "response", status |-> 200, response |-> response]

\* registerErrorHandler's handler: any error thrown while handling a request
InternalServerError ==
    HttpError(500, "internal_server_error", "Something went wrong.", Undefined)

\* Variant for C5: the parsed envelope passed on with its unvalidated input
RouteRawRequest(env, toolInputData) == env

\* The argument the route passes to handleMCPRequest
RouteRequest(env, toolInputData) == [env EXCEPT !.input = toolInputData]

\* obj?.key
OptGet(obj, key) == IF IsNullish(obj) THEN Undefined ELSE Get(obj, key)

\* Variant for C25: learnerLevel handed on as the envelope has it
BuildContextLevelAsGiven(req) ==
    [learnerLevel |-> OptGet(req.userContext, "learnerLevel"),
     previousTopics |-> Coalesce(OptGet(req.userContext, "previousTopics"), Arr(<<>>))]

\* handleMCPRequest: the context handed to the tool
BuildContext(req) ==
    [learnerLevel |-> Coalesce(OptGet(req.userContext, "learnerLevel"), Str("beginner")),
     previousTopics |-> Coalesce(OptGet(req.userContext, "previousTopics"), Arr(<<>>))]

\* Variant for C4: the unknown-tool response given the policy's defaults
UnknownToolResponseWithDefaults(toolName) ==
    ensureDefaults(Response(Null, Arr(<<>>), Str("Unknown tool: " \o toolName), Undefined))

\* handleMCPRequest: the response for a name getTool does not know
UnknownToolResponse(toolName) ==
    Response(Null, Arr(<<>>), Str("Unknown tool: " \o toolName), Undefined)

\* Variant for C2: the handler's response returned as it is
ReturnRawResponse(rawRes, req, ctx) == rawRes

\* Variant for C30: the policy applied for beginners only
FinalizeResponseForBeginners(rawRes, req, ctx) ==
    IF ctx.learnerLevel = Str("beginner")
    THEN applyTutorPolicy(rawRes, PolicyContext(req.toolName.v, ctx.learnerLevel.v))
    ELSE rawRes

\* handleMCPRequest: what it returns once tool.execute has resolved
FinalizeResponse(rawRes, req, ctx) ==
    applyTutorPolicy(rawRes, PolicyContext(req.toolName.v, ctx.learnerLevel.v))

ReceiveRequest(b) ==
    /\ listening
    /\ routes
    /\ reqPc = "idle"
    /\ body' = b
    /\ reqPc' = "received"
    /\ UNCHANGED <<envData, mcpReq, execArgs, raw, reply, trace>>
    /\ UNCHANGED <<mainVars, registryVars, policyVars, callVars>>

ValidateEnvelope ==
    /\ reqPc = "received"
    /\ LET env == validate(mcpRequestSchema, body)
       IN IF ~env.ok
          THEN /\ reply' = HttpError(400, "invalid_request",
                                     "MCP request failed validation.", Arr(env.issues))
               /\ reqPc' = "done"
               /\ UNCHANGED envData
          ELSE /\ envData' = env.data
               /\ reqPc' = "envelope_ok"
               /\ UNCHANGED reply
    /\ trace' = Append(trace, "validate_envelope")
    /\ UNCHANGED <<body, mcpReq, execArgs, raw>>
    /\ UNCHANGED <<mainVars, registryVars, policyVars, callVars>>

ValidateToolInput ==
    /\ reqPc = "envelope_ok"
    /\ LET toolName == envData.toolName.v
           schema == toolInputSchemas(toolName)
       IN IF ~Truthy(schema)
          THEN /\ reply' = HttpError(400, "unknown_tool", "Unknown tool: " \o toolName,
                                     Undefined)
               /\ reqPc' = "done"
               /\ trace' = Append(trace, "lookup_schema")
               /\ UNCHANGED mcpReq
          ELSE LET toolInput == validate(schema, envData.input)
               IN /\ trace' = trace \o <<"lookup_schema", "validate_input">>
                  /\ IF toolInput.threw
                     THEN /\ reply' = InternalServerError
                          /\ reqPc' = "done"
                          /\ UNCHANGED mcpReq
                     ELSE IF ~toolInput.ok
                     THEN /\ reply' = HttpError(400, "invalid_tool_input",
                                         "Tool input failed validation for: " \o toolName,
                                         Arr(toolInput.issues))
                          /\ reqPc' = "done"
                          /\ UNCHANGED mcpReq
                     ELSE /\ mcpReq' = RouteRequest(envData, toolInput.data)
                          /\ reqPc' = "dispatch"
                          /\ UNCHANGED reply
    /\ UNCHANGED <<body, envData, execArgs, raw>>
    /\ UNCHANGED <<mainVars, registryVars, policyVars, callVars>>

\* handleMCPRequest up to its await: getTool, the context, tool.execute
HandleMCPRequest ==
    /\ reqPc = "dispatch"
    /\ LET toolName == mcpReq.toolName.v
           tool == getTool(tools, toolName)
       IN /\ lookup' = [name |-> toolName, result |-> tool, made |-> TRUE]
          /\ IF ~Truthy(tool)
             THEN /\ reply' = HttpOk(UnknownToolResponse(toolName))
                  /\ reqPc' = "done"
                  /\ trace' = Append(trace, "get_tool")
                  /\ UNCHANGED <<execArgs, raw>>
             ELSE LET ctx == BuildContext(mcpReq)
                  IN /\ execArgs' = [tool |-> tool, input |-> mcpReq.input, ctx |-> ctx]
                     /\ raw' = Execute(tool, mcpReq.input, ctx)
                     /\ reqPc' = "awaiting_execute"
                     /\ trace' = trace \o <<"get_tool", "execute">>
                     /\ UNCHANGED reply
    /\ UNCHANGED <<body, envData, mcpReq, tools, regLog>>
    /\ UNCHANGED <<mainVars, policyVars, callVars>>

\* handleMCPRequest after its await, the tool's promise fulfilled
ApplyPolicyAndReturn ==
    /\ reqPc = "awaiting_execute"
    /\ ~raw.threw
    /\ reply' = HttpOk(FinalizeResponse(raw.value, mcpReq, execArgs.ctx))
    /\ trace' = Append(trace, "policy")
    /\ reqPc' = "done"
    /\ UNCHANGED <<body, envData, mcpReq, execArgs, raw>>
    /\ UNCHANGED <<mainVars, registryVars, policyVars, callVars>>

\* handleMCPRequest after its await, the tool's promise rejected: the error
\* reaches the server's error handler
ExecuteRejected ==
    /\ reqPc = "awaiting_execute"
    /\ raw.threw
    /\ reply' = InternalServerError
    /\ reqPc' = "done"
    /\ UNCHANGED <<body, envData, mcpReq, execArgs, raw, trace>>
    /\ UNCHANGED <<mainVars, registryVars, policyVars, callVars>>

\* The reply is sent; the handler's locals are gone
SendReply ==
    /\ reqPc = "done"
    /\ reqPc' = "idle"
    /\ body' = Undefined
    /\ envData' = Undefined
    /\ mcpReq' = Undefined
    /\ execArgs' = Undefined
    /\ raw' = Undefined
    /\ reply' = NoReply
    /\ trace' = <<>>
    /\ UNCHANGED <<mainVars, registryVars, policyVars, callVars>>

----------------------------------------------------------------------------
(* The server: startup, then requests *)

Init ==
    /\ mainPc = 1
    /\ errorHandler = FALSE
    /\ routes = FALSE
    /\ listening = FALSE
    /\ tools = EmptyMap
    /\ regLog = <<>>
    /\ lookup = NoLookup
    /\ reqPc = "idle"
    /\ body = Undefined
    /\ envData = Undefined
    /\ mcpReq = Undefined
    /\ execArgs = Undefined
    /\ raw = Undefined
    /\ reply = NoReply
    /\ trace = <<>>
    /\ polRaw = Undefined
    /\ polCtx = Undefined
    /\ polOut = Undefined
    /\ polPc = "unused"
    /\ callee = "none"
    /\ callArgs = Undefined
    /\ callRet = Undefined

Next ==
    \/ MainRegisterErrorHandler
    \/ MainRegisterRoutes
    \/ MainRegisterTool
    \/ MainListen
    \/ \E b \in Bodies : ReceiveRequest(b)
    \/ ValidateEnvelope
    \/ ValidateToolInput
    \/ HandleMCPRequest
    \/ ApplyPolicyAndReturn
    \/ ExecuteRejected
    \/ SendReply

Spec == Init /\ [][Next]_vars

----------------------------------------------------------------------------
(* The policy engine on its own: applyTutorPolicy over raw responses a
   handler may return *)

ProseLine == "Think about the inputs and outputs first."
CodeLine == "const total = add(a, b);"
FenceLine == Fence \o "ts"

\* A text of fences fence lines, then code, prose and blank lines
SampleText(fences, code, prose, blank) ==
    Text(<<Run(FenceLine, fences), Run(CodeLine, code), Run(ProseLine, prose),
           Run("", blank)>>)

SampleTexts ==
    {SampleText(f, c, p, b) :
        f \in {0, 1, 2}, c \in {0, 58, 59, 68, 69, 120, 121}, p \in {0, 10, 80},
        b \in {0, 40}}
    \ {SampleText(0, 0, 0, 0)}

SampleOutputs ==
    SampleTexts
    \cup {Undefined, Null, Str("HTTP is a protocol."), Text(<<>>),
          Out(<<Entry("concept", Str("HTTP")), Entry("steps", Strs(<<"a", "b">>))>>)}

SampleCheckpoints ==
    {Undefined, Arr(<<>>), Strs(<<"What did you try?">>),
     Strs(<<"one?", "two?", "three?", "four?", "five?">>)}

SampleTutorNotes == {Undefined, Str(""), Str("   "), Str("Try the smallest case first.")}

SampleHintLadders == {Undefined, Null, HintLadder(2, "More detail on request.")}

RawResponses ==
    {Response(o, c, n, h) :
        o \in SampleOutputs, c \in SampleCheckpoints, n \in SampleTutorNotes,
        h \in SampleHintLadders}

PolicyContexts ==
    {PolicyContext(n, l) :
        n \in {"explain_concept", "next_topic", "custom_tool"},
        l \in {"beginner", "intermediate"}}

PolicyInit ==
    /\ mainPc = 1
    /\ errorHandler = FALSE
    /\ routes = FALSE
    /\ listening = FALSE
    /\ tools = EmptyMap
    /\ regLog = <<>>
    /\ lookup = NoLookup
    /\ reqPc = "idle"
    /\ body = Undefined
    /\ envData = Undefined
    /\ mcpReq = Undefined
    /\ execArgs = Undefined
    /\ raw = Undefined
    /\ reply = NoReply
    /\ trace = <<>>
    /\ polRaw \in RawResponses
    /\ polCtx \in PolicyContexts
    /\ polOut = Undefined
    /\ polPc = "ready"
    /\ callee = "none"
    /\ callArgs = Undefined
    /\ callRet = Undefined

\* return applyTutorPolicy(raw, ctx)
PolicyApply ==
    /\ polPc = "ready"
    /\ polOut' = applyTutorPolicy(polRaw, polCtx)
    /\ polPc' = "returned"
    /\ UNCHANGED <<polRaw, polCtx, mainVars, registryVars, requestVars, callVars>>

\* The returned response handed to applyTutorPolicy once more, same context
PolicyApplyAgain ==
    /\ polPc = "returned"
    /\ polOut' = applyTutorPolicy(polOut, polCtx)
    /\ polPc' = "reapplied"
    /\ UNCHANGED <<polRaw, polCtx, mainVars, registryVars, requestVars, callVars>>

PolicyNext == PolicyApply \/ PolicyApplyAgain

PolicySpec == PolicyInit /\ [][PolicyNext]_vars

----------------------------------------------------------------------------
(* The registry and the dispatcher on their own: any sequence of
   registerTool calls, getTool, and in-process calls of handleMCPRequest *)

MaxRegistrations == 3

RegistrableTools ==
    {Tool(n, i) :
        n \in {"explain_concept", "next_topic", "custom"},
        i \in {"explainConceptTool", "nextTopicTool"}}

LookupNames == {"explain_concept", "next_topic", "custom", "missing"}

DirectInputs ==
    {[t |-> "object", concept |-> Str("http")],
     [t |-> "object", concept |-> Str("monad"), hintLevel |-> Num(2),
      currentTopic |-> Str("internet_basics")],
     [t |-> "object", concept |-> Str("constructor"), hintLevel |-> Num(2)]}

DirectRequests ==
    {Body(Str(n), i, u) :
        n \in LookupNames, i \in DirectInputs,
        u \in {Undefined, UserContext(Str("intermediate"), Strs(<<"internet_basics">>))}}

CallRegisterTool(tool) ==
    /\ Len(regLog) < MaxRegistrations
    /\ tools' = registerTool(tools, tool)
    /\ regLog' = Append(regLog, tool)
    /\ UNCHANGED <<lookup, mainVars, requestVars, policyVars, callVars>>

CallGetTool(name) ==
    /\ lookup' = [name |-> name, result |-> getTool(tools, name), made |-> TRUE]
    /\ UNCHANGED <<tools, regLog, mainVars, requestVars, policyVars, callVars>>

\* handleMCPRequest(req) called by an in-process caller
CallHandleMCPRequest(req) ==
    /\ reqPc = "idle"
    /\ mcpReq' = req
    /\ reqPc' = "dispatch"
    /\ UNCHANGED <<body, envData, execArgs, raw, reply, trace>>
    /\ UNCHANGED <<mainVars, registryVars, policyVars, callVars>>

RegistryNext ==
    \/ \E tool \in RegistrableTools : CallRegisterTool(tool)
    \/ \E name \in LookupNames : CallGetTool(name)
    \/ \E req \in DirectRequests : CallHandleMCPRequest(req)
    \/ HandleMCPRequest
    \/ ApplyPolicyAndReturn
    \/ ExecuteRejected
    \/ SendReply

RegistrySpec == Init /\ [][RegistryNext]_vars

----------------------------------------------------------------------------
(* The curriculum on its own: pickNextTopic over any track and completed
   set, nextTopicTool.execute over inputs and contexts, and walks along the
   prerequisites edges of TOPICS *)

MaxTrackLen == 3

Pending == [t |-> "pending"]

SampleIds == {"a", "b", "c"}

RECURSIVE SeqsUpTo(_, _)
\* The sequences over S of length at most n
SeqsUpTo(S, n) ==
    IF n = 0 THEN {<<>>}
    ELSE LET shorter == SeqsUpTo(S, n - 1)
         IN shorter \cup {Append(q, x) : q \in shorter, x \in S}

SampleTracks == SeqsUpTo(SampleIds, MaxTrackLen)

SampleCompleted == SUBSET (SampleIds \cup {"z"})

Range(xs) == {xs[i] : i \in DOMAIN xs}

\* Every id a track lists
TrackIds == UNION {Range(TRACKS(track)) : track \in TrackNames}

CurrentTopicValues ==
    {Undefined, Str(""), Str("not_a_topic"), Str("toString")}
    \cup {Str(id) : id \in {"internet_basics", "html_semantics", "sql_basics",
                            "api_rest_basics", "cors_basics", "http_basics"}}

SequencerInputs ==
    {[t |-> "object", track |-> tr, currentTopic |-> cur] :
        tr \in {Undefined} \cup {Str(track) : track \in TrackNames},
        cur \in CurrentTopicValues}

\* previousTopics: what a learner who follows a track has behind them, with
\* and without strings that are no topic ids, and a few sets out of order
PreviousTopicsValues ==
    LET prefixes == UNION {{SubSeq(TRACKS(track), 1, k) : k \in 0..Len(TRACKS(track))} :
                              track \in TrackNames}
        outOfOrder == {<<"http_basics">>, <<"fetch_ajax", "http_basics">>,
                       <<"api_rest_basics", "sql_basics", "http_basics">>}
    IN {Strs(q) : q \in prefixes \cup outOfOrder}
       \cup {Strs(<<"not_a_topic">> \o q \o <<"constructor">>) : q \in prefixes}

SequencerContexts ==
    {[learnerLevel |-> Str("beginner"), previousTopics |-> prev] :
        prev \in PreviousTopicsValues}

CurriculumInit ==
    /\ mainPc = 1
    /\ errorHandler = FALSE
    /\ routes = FALSE
    /\ listening = FALSE
    /\ tools = EmptyMap
    /\ regLog = <<>>
    /\ lookup = NoLookup
    /\ reqPc = "idle"
    /\ body = Undefined
    /\ envData = Undefined
    /\ mcpReq = Undefined
    /\ execArgs = Undefined
    /\ raw = Undefined
    /\ reply = NoReply
    /\ trace = <<>>
    /\ polRaw = Undefined
    /\ polCtx = Undefined
    /\ polOut = Undefined
    /\ polPc = "unused"
    /\ \/ /\ callee = "pickNextTopic"
          /\ callArgs \in {[ordered |-> o, completed |-> c] :
                              o \in SampleTracks, c \in SampleCompleted}
          /\ callRet = Pending
       \/ /\ callee = "nextTopicTool.execute"
          /\ callArgs \in {[input |-> i, ctx |-> c] :
                              i \in SequencerInputs, c \in SequencerContexts}
          /\ callRet = Pending
       \/ /\ callee = "TOPICS"
          /\ callArgs \in {[start |-> id, moved |-> FALSE] : id \in TopicIds \cup TrackIds}
          /\ callRet = Str(callArgs.start)

\* return pickNextTopic(ordered, completed)
CallPickNextTopic ==
    /\ callee = "pickNextTopic"
    /\ callRet = Pending
    /\ callRet' = pickNextTopic(callArgs.ordered, callArgs.completed)
    /\ UNCHANGED <<callee, callArgs, mainVars, registryVars, requestVars, policyVars>>

\* await nextTopicTool.execute(input, ctx)
CallNextTopicExecute ==
    /\ callee = "nextTopicTool.execute"
    /\ callRet = Pending
    /\ callRet' = nextTopicExecute(callArgs.input, callArgs.ctx)
    /\ UNCHANGED <<callee, callArgs, mainVars, registryVars, requestVars, policyVars>>

\* From the topic reached, on to one of TOPICS[id].prerequisites
FollowPrerequisite ==
    /\ callee = "TOPICS"
    /\ isTopicId(callRet.v)
    /\ \E i \in DOMAIN TOPICS(callRet.v).prerequisites :
          callRet' = Str(TOPICS(callRet.v).prerequisites[i])
    /\ callArgs' = [callArgs EXCEPT !.moved = TRUE]
    /\ UNCHANGED <<callee, mainVars, registryVars, requestVars, policyVars>>

\* The learner marks the topic next_topic returned as completed (appends
\* it to userContext.previousTopics) and asks again
LearnerMarksCompleted ==
    /\ callee = "nextTopicTool.execute"
    /\ callRet # Pending
    /\ Prop(callRet.value.output, "nextTopic") # Undefined
    /\ callArgs' = [callArgs EXCEPT !.ctx.previousTopics =
                        Arr(Append(@.items,
                                   Prop(Prop(callRet.value.output, "nextTopic"), "id")))]
    /\ callRet' = Pending
    /\ UNCHANGED <<callee, mainVars, registryVars, requestVars, policyVars>>

CurriculumNext ==
    \/ CallPickNextTopic
    \/ CallNextTopicExecute
    \/ FollowPrerequisite
    \/ LearnerMarksCompleted

CurriculumSpec == CurriculumInit /\ [][CurriculumNext]_vars

----------------------------------------------------------------------------
(* The classifier on its own: analyzeAnswers over lists of answers *)

MaxAnswers == 4

SampleAnswers ==
    {"", "HOW TO USE IT!", "A web protocol.", "Why is it so???",
     "Because it is needed", "WHY and HOW it matters",
     "The purpose and the difference", "When I use it for example"}

ClassifierInit ==
    /\ mainPc = 1
    /\ errorHandler = FALSE
    /\ routes = FALSE
    /\ listening = FALSE
    /\ tools = EmptyMap
    /\ regLog = <<>>
    /\ lookup = NoLookup
    /\ reqPc = "idle"
    /\ body = Undefined
    /\ envData = Undefined
    /\ mcpReq = Undefined
    /\ execArgs = Undefined
    /\ raw = Undefined
    /\ reply = NoReply
    /\ trace = <<>>
    /\ polRaw = Undefined
    /\ polCtx = Undefined
    /\ polOut = Undefined
    /\ polPc = "unused"
    /\ callee = "analyzeAnswers"
    /\ callArgs \in {[topic |-> "http_basics", answers |-> a] :
                        a \in SeqsUpTo(SampleAnswers, MaxAnswers)}
    /\ callRet = Pending

\* return analyzeAnswers(topic, answers)
CallAnalyzeAnswers ==
    /\ callee = "analyzeAnswers"
    /\ callRet = Pending
    /\ callRet' = analyzeAnswers(callArgs.topic, callArgs.answers)
    /\ UNCHANGED <<callee, callArgs, mainVars, registryVars, requestVars, policyVars>>

ClassifierNext == CallAnalyzeAnswers

ClassifierSpec == ClassifierInit /\ [][ClassifierNext]_vars

----------------------------------------------------------------------------
(* The assessment tools behind the dispatcher: the four built-in tools are
   registered one after the other, and an in-process caller hands
   handleMCPRequest assess_knowledge and analyze_assessment requests *)

BuiltinTools ==
    <<explainConceptTool, nextTopicTool, assessKnowledgeTool, analyzeAssessmentTool>>

AssessmentTopics ==
    {Str("http_basics"), Str("sql_basics"), Str("git_basics"), Str("not_a_topic"),
     Str("toString"), Str(""), Undefined}

AssessmentAnswerTexts ==
    {"ok", "A web protocol.", "Why is it so???", "When I use it for example"}

MaxAssessmentAnswers == 2

AssessmentAnswers ==
    {Undefined, Null, Str("When I use it for example"), Arr(<<Num(42)>>)}
        \cup {Strs(a) : a \in SeqsUpTo(AssessmentAnswerTexts, MaxAssessmentAnswers)}

AssessmentRequests ==
    {Body(Str("assess_knowledge"), [t |-> "object", topic |-> topic], Undefined) :
        topic \in AssessmentTopics}
    \cup {Body(Str("analyze_assessment"),
               [t |-> "object", topic |-> topic, answers |-> answers], Undefined) :
            topic \in AssessmentTopics, answers \in AssessmentAnswers}

RegisterBuiltinTool ==
    /\ Len(regLog) < Len(BuiltinTools)
    /\ tools' = registerTool(tools, BuiltinTools[Len(regLog) + 1])
    /\ regLog' = Append(regLog, BuiltinTools[Len(regLog) + 1])
    /\ UNCHANGED <<lookup, mainVars, requestVars, policyVars, callVars>>

AssessmentNext ==
    \/ RegisterBuiltinTool
    \/ \E req \in AssessmentRequests : CallHandleMCPRequest(req)
    \/ HandleMCPRequest
    \/ ApplyPolicyAndReturn
    \/ ExecuteRejected
    \/ SendReply

AssessmentSpec == Init /\ [][AssessmentNext]_vars

----------------------------------------------------------------------------
(* Properties *)

\* The response invariant: checkpoints non-empty, hintLadder present
HasCheckpoints(res) ==
    /\ IsArray(res.checkpoints)
    /\ Len(res.checkpoints.items) > 0

HasHintLadder(res) == ~IsNullish(res.hintLadder)

SatisfiesResponseInvariants(res) == HasCheckpoints(res) /\ HasHintLadder(res)

\* C1: whatever raw response applyTutorPolicy is given, the response it
\* returns has a non-empty checkpoints array and a hintLadder.
C1_PolicyEstablishesInvariants ==
    polPc = "returned" => SatisfiesResponseInvariants(polOut)

\* A raw response with empty checkpoints, no hintLadder and a solution-dump
\* output went through the policy
C1_Witness ==
    /\ polPc = "returned"
    /\ polRaw.checkpoints = Arr(<<>>)
    /\ IsNullish(polRaw.hintLadder)
    /\ Suspicious(stringifyOutput(polRaw.output))

\* Does stage a occur in the trace, and how often
Ran(stage) == \E i \in DOMAIN trace : trace[i] = stage

TimesRan(stage) == Cardinality({i \in DOMAIN trace : trace[i] = stage})

RanBefore(a, b) ==
    \A j \in DOMAIN trace :
        trace[j] = b => \E i \in DOMAIN trace : i < j /\ trace[i] = a

\* The learner level of the request as the caller sent it
RequestedLearnerLevel(req) ==
    IF IsNullish(req.userContext) \/ IsNullish(Get(req.userContext, "learnerLevel"))
    THEN "beginner"
    ELSE Get(req.userContext, "learnerLevel").v

\* C2: when the named tool is registered and its handler has returned, the
\* response dispatch returns is applyTutorPolicy(handler response,
\* {toolName, learnerLevel}), and the policy ran exactly once, after execute.
C2_DispatchAppliesPolicyOnce ==
    (reqPc = "done" /\ raw # Undefined /\ ~raw.threw) =>
        /\ reply = HttpOk(applyTutorPolicy(raw.value,
                       PolicyContext(mcpReq.toolName.v, RequestedLearnerLevel(mcpReq))))
        /\ TimesRan("policy") = 1
        /\ TimesRan("execute") = 1
        /\ RanBefore("execute", "policy")

\* A handler response without a hintLadder, from a request of a
\* non-default learner level, was returned through the policy
C2_Witness ==
    /\ reqPc = "done"
    /\ raw # Undefined
    /\ ~raw.threw
    /\ ~HasHintLadder(raw.value)
    /\ RequestedLearnerLevel(mcpReq) = "intermediate"
    /\ reply.kind = "response"

\* C3: every response dispatch returns has non-empty checkpoints and a
\* hintLadder, the unknown-tool response included.
C3_EveryResponseSatisfiesInvariants ==
    reply.kind = "response" => SatisfiesResponseInvariants(reply.response)

\* C4: a call of handleMCPRequest whose toolName is not in the registry
\* returns output null, empty checkpoints and tutorNotes naming the tool; no
\* handler runs and the policy is not applied.
C4_UnknownToolStep ==
    (reqPc = "dispatch" /\ reqPc' # "dispatch" /\ mcpReq.toolName.v \notin DOMAIN tools) =>
        /\ reqPc' = "done"
        /\ reply'.kind = "response"
        /\ reply'.response.output = Null
        /\ reply'.response.checkpoints = Arr(<<>>)
        /\ IsString(reply'.response.tutorNotes)
        /\ Includes(reply'.response.tutorNotes.v, mcpReq.toolName.v)
        /\ UNCHANGED <<execArgs, raw>>
        /\ ~\E i \in DOMAIN trace' : trace'[i] \in {"execute", "policy"}

StageOrder ==
    <<"validate_envelope", "lookup_schema", "validate_input", "get_tool", "execute",
      "policy">>

StageRank(stage) == CHOOSE i \in DOMAIN StageOrder : StageOrder[i] = stage

\* C5: the stages run in the order validate envelope, validate input,
\* execute, policy; execute runs only after both validations succeeded and
\* gets the schema-validated input, not the raw one; policy runs only after
\* execute.
C5_StagesOrdered ==
    /\ \A i, j \in DOMAIN trace : i < j => StageRank(trace[i]) < StageRank(trace[j])
    /\ Ran("execute") =>
          /\ Ran("validate_envelope")
          /\ Ran("validate_input")
          /\ validate(mcpRequestSchema, body).ok
          /\ validate(toolInputSchemas(body.toolName.v), body.input).ok
          /\ execArgs.input = validate(toolInputSchemas(body.toolName.v), body.input).data
    /\ Ran("policy") => Ran("execute") /\ raw # Undefined /\ ~raw.threw

\* The pipeline ran to the policy on a request whose raw input carried a key
\* the tool's schema does not know
C5_Witness ==
    /\ Ran("policy")
    /\ execArgs # Undefined
    /\ execArgs.input # body.input

\* The three outcomes of a request
IsValidationError ==
    /\ reply.kind = "error"
    /\ reply.status = 400
    /\ reply.error \in {"invalid_request", "unknown_tool", "invalid_tool_input"}

IsDispatchError ==
    /\ reply.kind = "response"
    /\ ~Ran("execute")
    /\ reply.response.output = Null

IsFinalizedResponse ==
    /\ reply.kind = "response"
    /\ Ran("policy")

\* C6: a request ends in exactly one of: a validation error, a dispatch
\* error, a policy-finalized response; execute runs at most once.
C6_ThreeOutcomes ==
    /\ TimesRan("execute") <= 1
    /\ reqPc = "done" =>
          \/ IsValidationError /\ ~IsDispatchError /\ ~IsFinalizedResponse
          \/ IsDispatchError /\ ~IsValidationError /\ ~IsFinalizedResponse
          \/ IsFinalizedResponse /\ ~IsValidationError /\ ~IsDispatchError

\* The last tool registered under a name, undefined if there is none
RECURSIVE LastRegistered(_, _)
LastRegistered(log, name) ==
    IF log = <<>> THEN Undefined
    ELSE IF log[Len(log)].name = name THEN log[Len(log)]
    ELSE LastRegistered(SubSeq(log, 1, Len(log) - 1), name)

\* C7: getTool(name) is the tool of the latest registerTool call with that
\* name, and undefined if the name was never registered.
C7_GetToolReturnsLatest ==
    \A name \in LookupNames : getTool(tools, name) = LastRegistered(regLog, name)

\* A name was registered twice with different tools, another name once, and
\* a third name was looked up and is absent
C7_Witness ==
    /\ Len(regLog) = 3
    /\ regLog[1].name = regLog[3].name
    /\ regLog[1] # regLog[3]
    /\ regLog[2].name # regLog[1].name
    /\ lookup.made
    /\ lookup.result = Undefined

\* C8: the registry is written only during startup: every write happens
\* before the server listens and before any request or lookup; no step of a
\* request writes it.
C8_WriteStep ==
    (tools' # tools \/ regLog' # regLog) =>
        /\ ~listening
        /\ ~listening'
        /\ reqPc = "idle"
        /\ reqPc' = "idle"
        /\ ~lookup.made

C8_TwoPhaseRegistry == [][C8_WriteStep]_vars

\* Both startup registrations are done, the server listens and a request has
\* read the registry
C8_Witness ==
    /\ listening
    /\ Len(regLog) = 2
    /\ lookup.made
    /\ reqPc = "done"

\* C9: a request whose toolName is the empty string is answered with
\* invalid_request carrying an issue whose path is toolName, and no later
\* stage runs.
C9_EmptyToolNameRejected ==
    (reqPc \notin {"idle", "received"} /\ IsString(Get(body, "toolName"))
        /\ Get(body, "toolName").v = "") =>
        /\ reqPc = "done"
        /\ reply.kind = "error"
        /\ reply.error = "invalid_request"
        /\ \E i \in DOMAIN reply.issues.items : reply.issues.items[i].path = "toolName"
        /\ trace = <<"validate_envelope">>
        /\ mcpReq = Undefined
        /\ execArgs = Undefined

\* A request with an empty toolName and an otherwise valid body was answered
C9_Witness ==
    /\ reqPc = "done"
    /\ Get(body, "toolName") = Str("")
    /\ validate(explainConceptInputSchema, Get(body, "input")).ok
    /\ reply.kind = "error"

\* C10: for a well-formed envelope, a toolName without an input schema is
\* answered unknown_tool and its input is never shape-checked; a toolName
\* with a schema whose input fails it is answered invalid_tool_input.
C10_UnknownToolOrInvalidInput ==
    (reqPc = "done" /\ validate(mcpRequestSchema, body).ok) =>
        /\ body.toolName.v \notin SchemaNames =>
              /\ reply.kind = "error"
              /\ reply.error = "unknown_tool"
              /\ ~Ran("validate_input")
        /\ (body.toolName.v \in SchemaNames
              /\ ~validate(toolInputSchemas(body.toolName.v), body.input).ok) =>
              /\ reply.kind = "error"
              /\ reply.error = "invalid_tool_input"

\* C11: every failure of the validation gate (envelope shape, unknown tool,
\* tool-input shape) is returned as a 400 reply, never thrown, and carries an
\* issues list of {path, message} pairs.
C11_ValidationFailuresCarryIssues ==
    (reqPc = "done" /\ ~Ran("get_tool")) =>
        /\ reply.kind = "error"
        /\ reply.status = 400
        /\ reply.error \in {"invalid_request", "unknown_tool", "invalid_tool_input"}
        /\ IsArray(reply.issues)
        /\ \A i \in DOMAIN reply.issues.items :
              DOMAIN reply.issues.items[i] = {"path", "message"}

\* The policy returned the guardrail's redirect
Redirected(res) ==
    /\ res.output.t = "object"
    /\ "entries" \in DOMAIN res.output
    /\ Prop(res.output, "message") = Str(SOLUTION_DUMP_MESSAGE)

\* The redirect for one fixed handler response and tool name, to compare with
ReferenceRedirect ==
    applyTutorPolicy(Response(SampleText(2, 121, 0, 0), Undefined, Undefined, Undefined),
                     PolicyContext("custom_tool", "beginner"))

\* C12: when the guardrail triggers, the message, the next steps, the three
\* checkpoints, the tutor note and the level-1 hintLadder of the result are the
\* same for every handler response (a handler's level-2 hintLadder is
\* dropped), and originalSummary is one text for explain_concept and one other
\* text for every other tool name.
C12_RedirectIsFixed ==
    (polPc = "returned" /\ Suspicious(stringifyOutput(polRaw.output))) =>
        /\ Redirected(polOut)
        /\ Prop(polOut.output, "nextSteps") = Prop(ReferenceRedirect.output, "nextSteps")
        /\ Len(polOut.output.entries) = 3
        /\ polOut.checkpoints = ReferenceRedirect.checkpoints
        /\ Len(polOut.checkpoints.items) = 3
        /\ polOut.tutorNotes = ReferenceRedirect.tutorNotes
        /\ polOut.hintLadder = ReferenceRedirect.hintLadder
        /\ polOut.hintLadder.level = Num(1)
        /\ DOMAIN polOut = DOMAIN ReferenceRedirect
        /\ IF polCtx.toolName = "explain_concept"
           THEN Prop(polOut.output, "originalSummary")
                   = Str("Concept explanations should be short, with checkpoints and examples only after you answer.")
           ELSE Prop(polOut.output, "originalSummary")
                   = Prop(ReferenceRedirect.output, "originalSummary")

\* The guardrail triggered on a response that came with its own checkpoints,
\* note and level-2 hintLadder, for a tool other than explain_concept
C12_Witness ==
    /\ polPc = "returned"
    /\ Suspicious(stringifyOutput(polRaw.output))
    /\ polRaw.hintLadder = HintLadder(2, "More detail on request.")
    /\ polRaw.checkpoints = Strs(<<"What did you try?">>)
    /\ polRaw.tutorNotes = Str("Try the smallest case first.")
    /\ polCtx.toolName = "next_topic"

\* The measures of a sample text, read off the way it was put together
FencesOf(output) == output.lines[1].n

LinesOf(output) ==
    output.lines[1].n + output.lines[2].n + output.lines[3].n + output.lines[4].n

CodeLinesOf(output) == output.lines[2].n

TriggerCondition(output) ==
    \/ FencesOf(output) >= 2 /\ LinesOf(output) > 60
    \/ LinesOf(output) > 120 /\ CodeLinesOf(output) * 100 > 35 * LinesOf(output)

C14_PassThroughWhenNotTriggered ==
    (polPc = "returned" /\ ~Redirected(polOut)) =>
        /\ polOut.output = polRaw.output
        /\ polOut.checkpoints =
              IF polRaw.checkpoints \in {Undefined, Arr(<<>>)}
              THEN DEFAULT_CHECKPOINTS ELSE polRaw.checkpoints
        /\ Len(DEFAULT_CHECKPOINTS.items) = 3
        /\ polOut.tutorNotes =
              IF polRaw.tutorNotes \in {Undefined, Str(""), Str("   ")}
              THEN DEFAULT_TUTOR_NOTES ELSE polRaw.tutorNotes
        /\ polOut.hintLadder =
              IF polRaw.hintLadder \in {Undefined, Null}
              THEN DEFAULT_HINT_LADDER ELSE polRaw.hintLadder
        /\ DEFAULT_HINT_LADDER.level = Num(1)
        /\ DOMAIN polOut = DOMAIN polRaw

\* A response with 5 checkpoints, a custom note and a level-2 hintLadder
\* passed through the policy without the guardrail triggering
C14_Witness ==
    /\ polPc = "returned"
    /\ ~Redirected(polOut)
    /\ polRaw.checkpoints = Strs(<<"one?", "two?", "three?", "four?", "five?">>)
    /\ polRaw.tutorNotes = Str("Try the smallest case first.")
    /\ polRaw.hintLadder = HintLadder(2, "More detail on request.")
    /\ polRaw.output \in SampleTexts
    /\ polOut = polRaw

\* The precondition of idempotence
IsComplete(res) ==
    /\ IsArray(res.checkpoints)
    /\ Len(res.checkpoints.items) > 0
    /\ IsString(res.tutorNotes)
    /\ Trim(res.tutorNotes.v) # ""
    /\ ~IsNullish(res.hintLadder)

\* C15: for a response that already has non-empty checkpoints, non-blank
\* tutorNotes and a hintLadder, applying the policy twice with the same
\* context gives what applying it once gives, whether or not the guardrail
\* triggers on the response.
C15_Idempotent ==
    (polPc = "reapplied" /\ IsComplete(polRaw)) =>
        polOut = applyTutorPolicy(polRaw, polCtx)

\* The policy was applied twice to a complete response on which the
\* guardrail triggers
C15_Witness ==
    /\ polPc = "reapplied"
    /\ IsComplete(polRaw)
    /\ Suspicious(stringifyOutput(polRaw.output))
    /\ Redirected(polOut)

\* The first element of ordered that is not in completed: Str(id), or Null
\* when there is none
FirstNotIn(ordered, completed) ==
    LET open == {i \in DOMAIN ordered : ordered[i] \notin completed}
    IN IF open = {} THEN Null
       ELSE Str(ordered[CHOOSE i \in open : \A j \in open : i <= j])

\* C16: for every track and every completed set, pickNextTopic returns the
\* first id in track order that is not completed, and none exactly when every
\* id of the track is completed; it never returns an id outside the track or
\* a completed one.
C16_SequencerReturnsFirstOpen ==
    (callee = "pickNextTopic" /\ callRet # Pending) =>
        /\ callRet = FirstNotIn(callArgs.ordered, callArgs.completed)
        /\ callRet = Null <=> Range(callArgs.ordered) \subseteq callArgs.completed
        /\ callRet # Null =>
              /\ callRet.v \in Range(callArgs.ordered)
              /\ callRet.v \notin callArgs.completed

\* The scan passed over a completed id at the head of a track with two open
\* ids behind it and returned the first of them
C16_Witness ==
    /\ callee = "pickNextTopic"
    /\ callArgs.ordered = <<"a", "b", "c">>
    /\ callArgs.completed = {"a", "z"}
    /\ callRet = Str("b")

\* What next_topic returned as output.nextTopic.id, Null when the track is
\* exhausted
ReturnedNextTopic ==
    LET nextTopic == Prop(callRet.value.output, "nextTopic")
    IN IF nextTopic = Undefined THEN Null ELSE Prop(nextTopic, "id")

SuppliedCurrentTopic == Get(callArgs.input, "currentTopic")

SuppliedPreviousTopics ==
    {callArgs.ctx.previousTopics.items[i].v :
        i \in DOMAIN callArgs.ctx.previousTopics.items}

SuppliedTrack ==
    IF Get(callArgs.input, "track") = Undefined THEN "fullstack"
    ELSE Get(callArgs.input, "track").v

\* The completed set the claims speak of
ExpectedCompleted ==
    (SuppliedPreviousTopics \cap TopicIds)
    \cup (IF SuppliedCurrentTopic # Undefined /\ SuppliedCurrentTopic.v \in TopicIds
          THEN {SuppliedCurrentTopic.v} ELSE {})

NextTopicReturned == callee = "nextTopicTool.execute" /\ callRet # Pending

\* The input and context without the strings that are no topic ids
WithoutUnknownIds(args) ==
    [input |-> IF Get(args.input, "currentTopic") # Undefined
                    /\ Get(args.input, "currentTopic").v \notin TopicIds
               THEN [args.input EXCEPT !.currentTopic = Undefined]
               ELSE args.input,
     ctx |-> [args.ctx EXCEPT !.previousTopics =
                 Arr(SelectSeq(args.ctx.previousTopics.items,
                               LAMBDA x : x.v \in TopicIds))]]

\* C17: next_topic adds a supplied currentTopic to the completed set built
\* from previousTopics before it scans, so the topic it returns is neither
\* the supplied currentTopic nor a member of previousTopics; strings that are
\* no topic ids, in either place, do not change the result.
C17_CurrentTopicCountsAsCompleted ==
    NextTopicReturned =>
        /\ ~callRet.threw
        /\ ReturnedNextTopic = FirstNotIn(TRACKS(SuppliedTrack), ExpectedCompleted)
        /\ ReturnedNextTopic # Null =>
              /\ ReturnedNextTopic # SuppliedCurrentTopic
              /\ ReturnedNextTopic.v \notin SuppliedPreviousTopics
        /\ callRet = nextTopicExecute(WithoutUnknownIds(callArgs).input,
                                      WithoutUnknownIds(callArgs).ctx)

\* The supplied currentTopic was the first open topic of the track, and
\* previousTopics held strings that are no topic ids
C17_Witness ==
    /\ NextTopicReturned
    /\ SuppliedCurrentTopic # Undefined
    /\ Str(SuppliedCurrentTopic.v)
          = FirstNotIn(TRACKS(SuppliedTrack), SuppliedPreviousTopics \cap TopicIds)
    /\ "not_a_topic" \in SuppliedPreviousTopics
    /\ ReturnedNextTopic # Null

MissingAdvisory == "You asked for this next, but you're missing prerequisites: "

\* The prerequisites of a topic that are absent from the completed set, in
\* the order the topic lists them
AbsentPrerequisites(id) ==
    SelectSeq(TOPICS(id).prerequisites, LAMBDA p : p \notin ExpectedCompleted)

\* C18: prerequisites are advisory: next_topic returns the topic the linear
\* scan selects whether or not its prerequisites are completed, and
\* whyThisNext carries the missing-prerequisites advisory exactly when some
\* prerequisite of that topic is absent from the completed set, listing
\* exactly the absent ones.
C18_PrerequisitesAdvisoryOnly ==
    (NextTopicReturned /\ ReturnedNextTopic # Null) =>
        LET why == Prop(callRet.value.output, "whyThisNext").v
            absent == AbsentPrerequisites(ReturnedNextTopic.v)
        IN /\ ReturnedNextTopic = FirstNotIn(TRACKS(SuppliedTrack), ExpectedCompleted)
           /\ StartsWith(why, MissingAdvisory) <=> absent # <<>>
           /\ \A p \in Range(TOPICS(ReturnedNextTopic.v).prerequisites) :
                 Includes(why, p) <=> p \in Range(absent)
           /\ absent # <<>> =>
                 why = MissingAdvisory \o Join(absent, ", ")
                          \o ". We can either backfill those or proceed carefully."

\* next_topic returned a topic of which one prerequisite is completed and
\* another is not
C18_Witness ==
    /\ NextTopicReturned
    /\ ReturnedNextTopic # Null
    /\ AbsentPrerequisites(ReturnedNextTopic.v) # <<>>
    /\ AbsentPrerequisites(ReturnedNextTopic.v)
          # TOPICS(ReturnedNextTopic.v).prerequisites

\* C19: the curriculum graph is a DAG: a walk along prerequisites edges from
\* any topic never comes back to that topic, every prerequisite reached is a
\* key of TOPICS, and every id a track lists is a key of TOPICS.
C19_CurriculumIsDag ==
    callee = "TOPICS" =>
        /\ callArgs.start \in TopicIds
        /\ callRet.v \in TopicIds
        /\ TOPICS(callRet.v).id = callRet.v
        /\ callArgs.moved => callRet.v # callArgs.start

\* A walk of more than one edge: from cqrs_basics down to internet_basics
C19_Witness ==
    /\ callee = "TOPICS"
    /\ callArgs.start = "cqrs_basics"
    /\ callArgs.moved
    /\ callRet = Str("internet_basics")

\* The gap the decision list of C20 gives an answer
ExpectedGap(answer) ==
    LET normalized == ToLowerCase(answer)
    IN IF Len(normalized) < 15 THEN "terminology"
       ELSE IF \E w \in {"use", "example", "when", "how"} : Includes(normalized, w)
       THEN "application"
       ELSE IF \E w \in {"why", "because", "difference", "purpose"} : Includes(normalized, w)
       THEN "conceptual"
       ELSE "unknown"

\* C20: each answer is classified by the first matching rule: lowercased
\* length below 15 is terminology; else containing use, example, when or how
\* is application; else containing why, because, difference or purpose is
\* conceptual; else unknown.  An answer of 15 or more characters with both an
\* application and a conceptual keyword is application; a short answer is
\* terminology whatever keywords it contains.
C20_ClassifierDecisionList ==
    (callee = "analyzeAnswers" /\ callRet # Pending) =>
        /\ Len(callRet.analyses) = Len(callArgs.answers)
        /\ \A i \in DOMAIN callArgs.answers :
              /\ callRet.analyses[i].questionId = i
              /\ callRet.analyses[i].gap = ExpectedGap(callArgs.answers[i])
              /\ callArgs.answers[i] = "WHY and HOW it matters" =>
                    callRet.analyses[i].gap = "application"
              /\ callArgs.answers[i] = "HOW TO USE IT!" =>
                    callRet.analyses[i].gap = "terminology"
              /\ callArgs.answers[i] = "The purpose and the difference" =>
                    callRet.analyses[i].gap = "conceptual"
              /\ callArgs.answers[i] = "A web protocol." =>
                    callRet.analyses[i].gap = "unknown"

\* A short answer with keywords, an answer with keywords of both kinds and an
\* answer of exactly 15 characters without any were classified
C20_Witness ==
    /\ callee = "analyzeAnswers"
    /\ callRet # Pending
    /\ callArgs.answers = <<"HOW TO USE IT!", "WHY and HOW it matters", "A web protocol.">>
    /\ callRet.analyses[2].gap = "application"

AnalyzeAnswersReturned == callee = "analyzeAnswers" /\ callRet # Pending

\* How many of the answers the classifier gave the gap
Occurrences(gap) ==
    Cardinality({i \in DOMAIN callRet.analyses : callRet.analyses[i].gap = gap})

Precedence(gap) ==
    CASE gap = "terminology" -> 1
      [] gap = "conceptual" -> 2
      [] gap = "application" -> 3
      [] gap = "unknown" -> 4

Gaps == {"terminology", "conceptual", "application", "unknown"}

\* C21: for every non-empty answer sequence, summary.primaryGap is a gap with
\* the greatest number of occurrences among the per-answer gaps, and of
\* several such gaps the earliest in the order terminology, conceptual,
\* application, unknown.
C21_PrimaryGapIsMostFrequent ==
    (AnalyzeAnswersReturned /\ callArgs.answers # <<>>) =>
        LET primary == callRet.summary.primaryGap
        IN /\ primary \in Gaps
           /\ \A g \in Gaps : Occurrences(g) <= Occurrences(primary)
           /\ \A g \in Gaps :
                 Occurrences(g) = Occurrences(primary) => Precedence(primary) <= Precedence(g)

\* Conceptual and application tie at two answers each, the application
\* answers first: conceptual is chosen
C21_Witness ==
    /\ AnalyzeAnswersReturned
    /\ Len(callArgs.answers) = 4
    /\ Occurrences("application") = 2
    /\ Occurrences("conceptual") = 2
    /\ callRet.analyses[1].gap = "application"
    /\ callRet.summary.primaryGap = "conceptual"

\* C22: with n answers of which u are classified unknown, summary.confidence
\* is low iff 2u > n, medium iff u >= 1 and 2u <= n, high iff u = 0; 4 answers
\* all unknown give low, 2 unknown of 4 give medium.
C22_ConfidenceThresholds ==
    AnalyzeAnswersReturned =>
        LET n == Len(callArgs.answers)
            u == Occurrences("unknown")
            confidence == callRet.summary.confidence
        IN /\ confidence \in {"low", "medium", "high"}
           /\ confidence = "low" <=> 2 * u > n
           /\ confidence = "medium" <=> (u >= 1 /\ 2 * u <= n)
           /\ confidence = "high" <=> u = 0
           /\ (n = 4 /\ u = 4) => confidence = "low"
           /\ (n = 4 /\ u = 2) => confidence = "medium"

\* Two of four answers were classified unknown
C22_Witness ==
    /\ AnalyzeAnswersReturned
    /\ Len(callArgs.answers) = 4
    /\ Occurrences("unknown") = 2
    /\ callRet.summary.confidence = "medium"

\* The tool impl ran for the request in hand
Executed(impl) ==
    /\ reqPc \in {"awaiting_execute", "done"}
    /\ execArgs # Undefined
    /\ execArgs.tool.impl = impl

NoAnswers(answers) == ~IsArray(answers) \/ answers = Arr(<<>>)

\* C23: analyze_assessment with a known topic and an empty or non-array
\* answers value returns the "No answers provided to analyze." response, and
\* analyzeAnswers is called only with a non-empty sequence of answers
C23_EmptyAnswersNeverReachClassifier ==
    Executed("analyzeAssessmentTool") =>
        LET topic == Get(execArgs.input, "topic")
            answers == Get(execArgs.input, "answers")
        IN /\ (IsTopic(topic) /\ NoAnswers(answers)) =>
                 /\ ~raw.threw
                 /\ Prop(raw.value.output, "message") = Str("No answers provided to analyze.")
                 /\ raw.value.checkpoints = Strs(<<"Paste your answers as an array of strings.">>)
                 /\ reqPc = "done" =>
                        Prop(reply.response.output, "message")
                            = Str("No answers provided to analyze.")
           /\ "analyzeAnswers" \in Range(raw.calls) =>
                 IsArray(answers) /\ Len(answers.items) > 0

C23_Witness ==
    /\ Executed("analyzeAssessmentTool")
    /\ reqPc = "done"
    /\ execArgs.input.topic = Str("http_basics")
    /\ execArgs.input.answers = Arr(<<>>)
    /\ Prop(reply.response.output, "message") = Str("No answers provided to analyze.")

UnknownTopicMessage(impl, topic) ==
    IF impl = "assessKnowledgeTool"
    THEN Str("I don't recognize \"" \o Interpolate(topic) \o "\" as a curriculum topic.")
    ELSE Str("Unknown topic \"" \o Interpolate(topic) \o "\".")

\* C24: for a topic that is not a key of the topic graph, assess_knowledge
\* and analyze_assessment return their unknown-topic response, having called
\* isTopicId and nothing else (no TOPICS, no DIAGNOSTICS, no analyzeAnswers);
\* in analyze_assessment this holds whatever the answers are, empty included;
\* the response is then finalized by the policy
C24_UnknownTopicRecoveredLocally ==
    \A impl \in {"assessKnowledgeTool", "analyzeAssessmentTool"} :
        (Executed(impl) /\ ~IsTopic(Get(execArgs.input, "topic"))) =>
            /\ ~raw.threw
            /\ raw.calls = <<"isTopicId">>
            /\ Prop(raw.value.output, "message")
                  = UnknownTopicMessage(impl, Get(execArgs.input, "topic"))
            /\ reqPc = "done" =>
                  /\ reply = HttpOk(applyTutorPolicy(raw.value, execArgs.ctx))
                  /\ reply.response.output = raw.value.output
                  /\ SatisfiesResponseInvariants(reply.response)

C24_Witness ==
    /\ Executed("analyzeAssessmentTool")
    /\ reqPc = "done"
    /\ execArgs.input.topic = Str("not_a_topic")
    /\ execArgs.input.answers = Arr(<<>>)
    /\ Prop(reply.response.output, "message") = Str("Unknown topic \"not_a_topic\".")

\* A tool was handed the request in hand
ToolRan == reqPc \in {"awaiting_execute", "done"} /\ execArgs # Undefined

\* body.userContext.key, or fallback when userContext or the field is absent
FromUserContext(key, fallback) ==
    LET userContext == Get(body, "userContext")
    IN IF IsNullish(userContext) \/ IsNullish(Get(userContext, key))
       THEN fallback
       ELSE Get(userContext, key)

\* C25: the context handed to a tool has learnerLevel and previousTopics
\* set: each is the value in the userContext of the request being handled,
\* or beginner / the empty list when userContext or the field is absent; so
\* the context is determined by the request in hand alone
C25_ContextNormalized ==
    ToolRan =>
        /\ ~IsNullish(execArgs.ctx.learnerLevel)
        /\ ~IsNullish(execArgs.ctx.previousTopics)
        /\ DOMAIN execArgs.ctx = {"learnerLevel", "previousTopics"}
        /\ execArgs.ctx.learnerLevel = FromUserContext("learnerLevel", Str("beginner"))
        /\ execArgs.ctx.previousTopics = FromUserContext("previousTopics", Arr(<<>>))

\* A request whose userContext has neither field reached a tool
C25_Witness ==
    /\ ToolRan
    /\ Get(body, "userContext") = UserContext(Undefined, Undefined)
    /\ execArgs.ctx = [learnerLevel |-> Str("beginner"), previousTopics |-> Arr(<<>>)]

NonBlankLinesOf(output) == output.lines[1].n + output.lines[2].n + output.lines[3].n

\* The trigger condition with codeLikeRatio taken over the non-blank lines
TriggerConditionOverNonBlank(output) ==
    \/ FencesOf(output) >= 2 /\ LinesOf(output) > 60
    \/ /\ LinesOf(output) > 120
       /\ CodeLinesOf(output) * Percent > CodeRatioPercent * Max(1, NonBlankLinesOf(output))

\* C26: codeLikeRatio is the number of code-like lines over the number of
\* non-blank lines of the rendered output, so blank lines do not lower the
\* ratio the second trigger clause compares with 0.35: the guardrail
\* redirects exactly the outputs whose trigger condition, with that ratio,
\* holds
C26_RatioOverNonBlankLines ==
    (polPc = "returned" /\ polRaw.output \in SampleTexts) =>
        (Redirected(polOut) <=> TriggerConditionOverNonBlank(polRaw.output))

\* The ids a track lists before position i
EarlierInTrack(track, i) == Range(SubSeq(TRACKS(track), 1, i - 1))

\* The topic at position i of the track has all its prerequisites earlier
\* in the track
PrerequisitesEarlier(track, i) ==
    Range(TOPICS(TRACKS(track)[i]).prerequisites) \subseteq EarlierInTrack(track, i)

\* The learner started the track with nothing completed and has marked each
\* returned topic as completed since: previousTopics is a prefix of the track
FollowingTrack ==
    /\ callee = "nextTopicTool.execute"
    /\ SuppliedCurrentTopic = Undefined
    /\ \E k \in 0..Len(TRACKS(SuppliedTrack)) :
          callArgs.ctx.previousTopics = Strs(SubSeq(TRACKS(SuppliedTrack), 1, k))

AdvisoryReceived ==
    StartsWith(Prop(callRet.value.output, "whyThisNext").v, MissingAdvisory)

PrerequisiteClosedTracks == {"foundation", "fullstack"}

C28_SchemaNamesAreRegisteredNames ==
    /\ listening => DOMAIN tools = SchemaNames
    /\ (reqPc = "done" /\ Ran("get_tool")) =>
          /\ Ran("execute")
          /\ ~IsDispatchError
          /\ reply # HttpOk(UnknownToolResponse(body.toolName.v))

\* The recommendation in the reply to an analyze_assessment request,
\* Undefined when the reply carries none
Recommendation ==
    IF Executed("analyzeAssessmentTool") /\ reqPc = "done" /\ reply.kind = "response"
    THEN Prop(reply.response.output, "recommendation")
    ELSE Undefined

OutKeys(obj) == {obj.entries[i].k : i \in DOMAIN obj.entries}

\* recommendation.payload ?? {}, as the input of the next request
FollowUpInput(recommendation) ==
    LET payload == Prop(recommendation, "payload")
    IN IF payload = Undefined THEN [t |-> "object"]
       ELSE [k \in {"t"} \cup OutKeys(payload) |->
                IF k = "t" THEN "object" ELSE Prop(payload, k)]

HasHandler(name) == \E i \in DOMAIN BuiltinTools : BuiltinTools[i].name = name

\* The follow-up request names a tool with a schema and a handler and its
\* input passes the tool's validation
CanBeFollowed(recommendation) ==
    LET nextStep == Prop(recommendation, "nextStep").v
    IN /\ nextStep \in SchemaNames
       /\ HasHandler(nextStep)
       /\ validate(toolInputSchemas(nextStep), FollowUpInput(recommendation)).ok

\* explain_concept answers the follow-up request from a glossary entry
ResolvesInGlossary(recommendation) ==
    LET followUp == validate(toolInputSchemas("explain_concept"),
                             FollowUpInput(recommendation))
        answer == explainConceptExecute(followUp.data, execArgs.ctx)
    IN /\ followUp.ok
       /\ ~answer.threw
       /\ Prop(answer.value.output, "approach") = Undefined
       /\ Prop(answer.value.output, "message") = Undefined

\* C29: every recommendation analyze_assessment produces can be followed as
\* the next request: nextStep names a tool that has an input schema and a
\* handler, the payload (or an empty object) passes that tool's input
\* validation, and for explain_concept the payload's concept resolves to a
\* glossary entry, not to the not-in-glossary fallback
C29_RecommendationCanBeFollowed ==
    Recommendation # Undefined =>
        /\ CanBeFollowed(Recommendation)
        /\ Prop(Recommendation, "nextStep") = Str("explain_concept") =>
              ResolvesInGlossary(Recommendation)

\* The request in hand with userContext.learnerLevel replaced by level
\* (Undefined: the field absent), everything else as it is
WithLearnerLevel(req, level) ==
    [req EXCEPT !.userContext =
        [t |-> "object", learnerLevel |-> level,
         previousTopics |-> OptGet(req.userContext, "previousTopics")]]

\* What handleMCPRequest answers to a validated request
AnswerTo(req) ==
    LET tool == getTool(tools, req.toolName.v)
        ctx == BuildContext(req)
    IN IF ~Truthy(tool) THEN HttpOk(UnknownToolResponse(req.toolName.v))
       ELSE IF Execute(tool, req.input, ctx).threw THEN InternalServerError
       ELSE HttpOk(FinalizeResponse(Execute(tool, req.input, ctx).value, req, ctx))

LearnerLevels == {Undefined, Str("beginner"), Str("intermediate")}

\* C30: the reply to a request does not depend on userContext.learnerLevel:
\* the same request with learnerLevel beginner, intermediate or absent is
\* answered with the identical policy-finalized response, hintLadder and
\* guardrail decision included
C30_LearnerLevelDoesNotMatter ==
    (reqPc = "done" /\ Ran("get_tool")) =>
        \A level \in LearnerLevels : reply = AnswerTo(WithLearnerLevel(mcpReq, level))

\* An intermediate learner asked explain_concept for hint 2 and got the
\* level-2 ladder a beginner gets
C30_Witness ==
    /\ reqPc = "done"
    /\ Ran("policy")
    /\ OptGet(mcpReq.userContext, "learnerLevel") = Str("intermediate")
    /\ reply.response.hintLadder.level = Num(2)
    /\ reply = AnswerTo(WithLearnerLevel(mcpReq, Str("beginner")))

====
